---- MODULE Spec2Model ----
(***************************************************************************)
(* The GraffitiWall coordinator of vandl (server.ts): the SQLite-backed    *)
(* sliding-window rate limiter, contribute's admission and backpressure,   *)
(* the generateArt pipeline, rotateWall's archival and adminReset.         *)
(*                                                                         *)
(* JavaScript runs one handler at a time and gives up control only at an   *)
(* await, so every action below is the code between two awaits.            *)
(***************************************************************************)
EXTENDS Integers, Sequences, FiniteSets, TLC

(***************************************************************************)
(* Program constants.                                                      *)
(***************************************************************************)
RATE_LIMIT_WINDOW_MS == 60000
RATE_LIMIT_PER_IP_WRITE == 3
RATE_LIMIT_GLOBAL_WRITE == 30
MAX_CONCURRENT_GENERATIONS == 3
RATE_LIMIT_PER_IP_READ == 30
MAX_CONNECTIONS == 100

(***************************************************************************)
(* Bounds of the model.                                                    *)
(***************************************************************************)
\* Date.now() is explored up to this many milliseconds after the start.
MaxNow == 120000
\* The limits the limiter is called with on its own are 1..MaxLimit.
MaxLimit == 3
\* In Spec, piece ids (crypto.randomUUID()) are 1..MaxPieces, in order.
MaxPieces == 2
\* rotateWall runs are 1..MaxRotations, started in order.
MaxRotations == 2
\* In Spec, contribute is called while global:write holds fewer timestamps.
MaxCalls == 3
\* The bounds on piece ids and on calls in SpecCap.
MaxCapPieces == 4
MaxCapCalls == 4
\* In SpecRotate and SpecArchive, piece ids are 1..MaxRotPieces.
MaxRotPieces == 1
\* In SpecSubmit, contribute is called while global:write holds fewer timestamps.
MaxSubmitCalls == 5
\* getWallSnapshot is called while ip:read holds fewer timestamps.
MaxReads == 1
\* pieces submitted with coordinates
MaxPlaced == 2
\* At most this many sessions are connected at a time where cursors move.
MaxSessions == 2
\* Where sessions join a wall in use, the clock is followed for this many
\* seconds.
MaxSeconds == 2

VARIABLES
    now,          \* Date.now(), in ms since the coordinator was created
    rate_limits,  \* table rate_limits: key -> stored row
    ret,          \* what the handler that ran last was given and returned
    admitLog,     \* history: per key, the times of the admits of the last 60 s
    clean,        \* history: per key, no storage fault and no corruption so far
    graffiti,     \* table graffiti: piece id -> row
    job,          \* per piece id, where its scheduled generateArt run stands
    pendingGenerations,  \* this.pendingGenerations
    state,        \* this.state: totalPieces, backgroundImage, wallEpoch
    nextId,       \* the next piece id crypto.randomUUID() gives
    rot,          \* per rotateWall run, where it stands and its local variables
    WALL_HISTORY,        \* the R2 bucket: object key -> stored snapshot
    wall_history_index,  \* table wall_history_index: its rows
    wall_backgrounds,    \* table wall_backgrounds, oldest first
    wall_snapshots,      \* table wall_snapshots: its rows
    sent,         \* the messages the step that ran last broadcast, in order
    connections,  \* this.getConnections(): the live sessions, oldest first
    cursorStates,   \* per live session, the cursor part of connection.state
    clientCursors,  \* per live session, the cursors its client displays
    client,       \* one page's useWall hook: its socket, its state and its refs
    intervalSchedules,  \* this.getSchedules({ type: "interval" }): how many run rotateWall
    calls         \* cleanupOldHistory's and getWallSnapshot's suspended calls

limiterVars == <<rate_limits, admitLog, clean>>
wallVars == <<graffiti, job, pendingGenerations, state, nextId>>
rotVars == <<rot, WALL_HISTORY, wall_history_index, wall_backgrounds, wall_snapshots>>
cursorVars == <<cursorStates, clientCursors>>
vars == <<now, ret, limiterVars, wallVars, rotVars, sent, connections, cursorVars,
          client, intervalSchedules, calls>>

(***************************************************************************)
(* Rate limiting: checkRateLimit.                                          *)
(***************************************************************************)
IPs == {"203.0.113.7", "198.51.100.9"}

GlobalWriteKey == <<"global:write", "">>
IpWriteKey(ip) == <<"ip:write", ip>>
IpReadKey(ip) == <<"ip:read", ip>>
Keys == {GlobalWriteKey} \cup {IpWriteKey(ip) : ip \in IPs}
            \cup {IpReadKey(ip) : ip \in IPs}

\* A row of rate_limits: column timestamps is a JSON text.  payload says what
\* JSON.parse makes of it: "array" (ts is the array), "notarray" (valid JSON
\* that is no array), "unparsable" (JSON.parse throws); "none": no row.
NoRow == [payload |-> "none", ts |-> <<>>]
ArrayRow(ts) == [payload |-> "array", ts |-> ts]
CorruptRow(kind) == [payload |-> kind, ts |-> <<>>]

\* Which kind of SQL statement throws when a checkRateLimit call runs one.
Faults == {"none", "select", "delete", "write"}

\* Math.ceil(x / 1000)
CeilSeconds(x) == IF x % 1000 = 0 THEN x \div 1000 ELSE (x \div 1000) + 1
\* Math.floor(x / 1000)
FloorSeconds(x) == x \div 1000

\* timestamps.filter((t) => t > windowStart)
pruneInclusive(timestamps, windowStart) ==
    SelectSeq(timestamps, LAMBDA t : t >= windowStart)
pruneNothing(timestamps, windowStart) == timestamps
pruneEverything(timestamps, windowStart) == <<>>
pruneWindow(timestamps, windowStart) ==
    SelectSeq(timestamps, LAMBDA t : t > windowStart)

\* Math.ceil((timestamps[0] + RATE_LIMIT_WINDOW_MS - now) / 1000)
retryInOneSecond(timestamps, t) == 1
retryInFloor(timestamps, t) ==
    FloorSeconds(timestamps[1] + RATE_LIMIT_WINDOW_MS - t)
retryIn(timestamps, t) ==
    CeilSeconds(timestamps[1] + RATE_LIMIT_WINDOW_MS - t)

\* The inner try/catch around JSON.parse: what timestamps becomes and whether
\* the catch block ran (it deletes the row).  "uncaught" is a parse error
\* that leaves the inner try: the code has none.
parseRowUncaught(row) ==
    IF row.payload = "unparsable"
    THEN [timestamps |-> <<>>, outcome |-> "uncaught"]
    ELSE [timestamps |-> IF row.payload = "array" THEN row.ts ELSE <<>>,
          outcome |-> "parsed"]
parseRow(row) ==
    IF row.payload = "unparsable"
    THEN [timestamps |-> <<>>, outcome |-> "caught"]
    ELSE [timestamps |-> IF row.payload = "array" THEN row.ts ELSE <<>>,
          outcome |-> "parsed"]

Thrown(rl, what) == [res |-> "throw", retryIn |-> 0, rl |-> rl, threw |-> what]

\* The body of checkRateLimit's outer try.  rl is the table, t is Date.now(),
\* fault the statement that throws.  res is "admit" (return null), "deny"
\* (return the message with retryIn) or "throw" (an exception leaves the try);
\* threw is what threw: "storage" (a SQL statement), "parse" or "nothing".
checkRateLimitTry(rl, key, limit, t, fault) ==
    LET windowStart == t - RATE_LIMIT_WINDOW_MS
        row == rl[key]
        hasRow == row.payload # "none"
        parsed == IF hasRow THEN parseRow(row)
                  ELSE [timestamps |-> <<>>, outcome |-> "parsed"]
        rl1 == IF parsed.outcome = "caught" THEN [rl EXCEPT ![key] = NoRow] ELSE rl
        timestamps == pruneWindow(parsed.timestamps, windowStart)
        rl2 == IF Len(timestamps) = 0 /\ hasRow
               THEN [rl1 EXCEPT ![key] = NoRow] ELSE rl1
    IN  IF fault = "select" THEN Thrown(rl, "storage")
        ELSE IF parsed.outcome = "uncaught" THEN Thrown(rl, "parse")
        ELSE IF parsed.outcome = "caught" /\ fault = "delete" THEN Thrown(rl, "storage")
        ELSE IF Len(timestamps) >= limit
        THEN IF fault = "write" THEN Thrown(rl1, "storage")
             ELSE [res |-> "deny", retryIn |-> retryIn(timestamps, t),
                   rl |-> [rl1 EXCEPT ![key] = ArrayRow(timestamps)],
                   threw |-> "nothing"]
        ELSE IF Len(timestamps) = 0 /\ hasRow /\ fault = "delete" THEN Thrown(rl1, "storage")
        ELSE IF fault = "write" THEN Thrown(rl2, "storage")
        ELSE [res |-> "admit", retryIn |-> 0,
              rl |-> [rl2 EXCEPT ![key] = ArrayRow(Append(timestamps, t))],
              threw |-> "nothing"]

\* checkRateLimit: the outer catch turns every exception into an admit.
checkRateLimitRethrow(rl, key, limit, t, fault) ==
    checkRateLimitTry(rl, key, limit, t, fault)
failOpen(r) == IF r.res = "throw" THEN [r EXCEPT !.res = "admit"] ELSE r
checkRateLimit(rl, key, limit, t, fault) ==
    failOpen(checkRateLimitTry(rl, key, limit, t, fault))

NoCall == [op |-> "none"]

\* The admits of log that are less than one window old at time t.
InWindow(log, t) == SelectSeq(log, LAMBDA a : t - a < RATE_LIMIT_WINDOW_MS)

\* The history of one checkRateLimit call on key that returned res; it is
\* kept only while the key is clean.
LogCheck(log, key, res, t, stillClean) ==
    [log EXCEPT ![key] = IF ~stillClean THEN <<>>
                         ELSE IF res = "admit" THEN Append(InWindow(@, t), t)
                         ELSE InWindow(@, t)]

\* One checkRateLimit call on the limiter's table and its history
\* L = [rl, log, clean]: the result r of the call and the new L.
checked(L, key, t, r) ==
    [res |-> r.res, retryIn |-> r.retryIn, threw |-> r.threw,
     L |-> [rl |-> r.rl,
            log |-> LogCheck(L.log, key, r.res, t, L.clean[key] /\ r.threw = "nothing"),
            clean |-> [L.clean EXCEPT ![key] = @ /\ r.threw = "nothing"]]]
applyCheck(L, key, limit, t, fault) ==
    checked(L, key, t, checkRateLimit(L.rl, key, limit, t, fault))

Limiter == [rl |-> rate_limits, log |-> admitLog, clean |-> clean]
SetLimiter(L) ==
    /\ rate_limits' = L.rl
    /\ admitLog' = L.log
    /\ clean' = L.clean

(***************************************************************************)
(* Input sanitization and the content pre-filter, on the texts the model   *)
(* submits.                                                                *)
(***************************************************************************)
NULL == "NULL"

TaggedText == "<b>a cat</b>"
BlankText == "   "
ScriptText == "<script>alert(1)</script>"
SqlText == "'; DROP TABLE graffiti"
BlockedText == "kill yourself"
Texts == {TaggedText, BlankText, ScriptText, SqlText, BlockedText}

ShortStyle == "neon"
StencilStyle == "neon stencil"
Styles == {NULL, ShortStyle, StencilStyle}

\* text.length, for the strings above
StrLen(text) ==
    CASE text = TaggedText -> 12 [] text = BlankText -> 3
      [] text = ScriptText -> 25 [] text = SqlText -> 22 [] text = BlockedText -> 13
      [] text = "a cat" -> 5 [] text = "alert(1)" -> 8 [] text = "" -> 0
      [] text = ShortStyle -> 4 [] text = StencilStyle -> 12
      [] text = "Content flagged by moderation" -> 29
      [] text = "AiError: upstream timeout" -> 25
      [] text = "SqlError: storage failure" -> 25
      [] text = "Generation failed" -> 17
      [] text = "AiError: (600 characters)" -> 600
      [] text = "AiError: (the first 500 characters)" -> 500
      [] text = "Ann" -> 3 [] text = "Anonymous" -> 9
      [] text = "LongName (60 characters)" -> 60
      [] text = "LongName (the first 50 characters)" -> 50
\* text.slice(0, n), for the strings above
slice(text, n) ==
    IF StrLen(text) <= n THEN text
    ELSE IF text = "AiError: (600 characters)" /\ n = 500
    THEN "AiError: (the first 500 characters)"
    ELSE IF text = "LongName (60 characters)" /\ n = 50
    THEN "LongName (the first 50 characters)"
    ELSE text
\* text.replace(HTML_TAG_RE, "").trim()
stripped(text) ==
    CASE text = TaggedText -> "a cat" [] text = BlankText -> ""
      [] text = ScriptText -> "alert(1)" [] OTHER -> text
\* SCRIPT_RE.test(text), SQL_INJECT_RE.test(text), PROFANITY_RE.test(text)
SCRIPT_RE(text) == text = ScriptText
SQL_INJECT_RE(text) == text = SqlText
PROFANITY_RE(text) == text = BlockedText
containsProfanity(text) == PROFANITY_RE(text)

sanitizeInput(text) ==
    IF SCRIPT_RE(text) \/ SQL_INJECT_RE(text)
    THEN [clean |-> "", rejected |-> "Input contains prohibited content."]
    ELSE IF StrLen(stripped(text)) = 0
    THEN [clean |-> "", rejected |-> "Text cannot be empty."]
    ELSE [clean |-> stripped(text), rejected |-> NULL]

\* style ? sanitizeInput(style).clean.slice(0, 150) || null : null
cleanStyleOf(style) ==
    IF style = NULL \/ sanitizeInput(style).clean = "" THEN NULL
    ELSE sanitizeInput(style).clean

(***************************************************************************)
(* The moderation verdict: response?.trim().toUpperCase() on responses     *)
(* written as sequences of characters.                                     *)
(***************************************************************************)
NoResponse == <<"undefined">>
SAFE == <<"S", "A", "F", "E">>
Responses ==
    { SAFE,
      <<"s", "a", "f", "e">>,
      <<" ", "S", "a", "f", "e", " ">>,
      <<"U", "N", "S", "A", "F", "E">>,
      <<>>,
      NoResponse }

IsSpace(c) == c \in {" ", "\n", "\t"}
toUpperChar(c) ==
    CASE c = "s" -> "S" [] c = "a" -> "A" [] c = "f" -> "F" [] c = "e" -> "E"
      [] c = "u" -> "U" [] c = "n" -> "N" [] OTHER -> c
toUpperCase(str) == [i \in 1..Len(str) |-> toUpperChar(str[i])]
RECURSIVE trimStart(_)
trimStart(str) ==
    IF Len(str) > 0 /\ IsSpace(Head(str)) THEN trimStart(Tail(str)) ELSE str
RECURSIVE trimEnd(_)
trimEnd(str) ==
    IF Len(str) > 0 /\ IsSpace(str[Len(str)])
    THEN trimEnd(SubSeq(str, 1, Len(str) - 1)) ELSE str
trim(str) == trimEnd(trimStart(str))

\* const verdict = moderationResponse.response?.trim().toUpperCase()
verdictOf(response) ==
    IF response = NoResponse THEN NoResponse ELSE toUpperCase(trim(response))
\* verdict !== "SAFE"
flaggedVerbatim(response) == response # SAFE
flagged(response) == verdictOf(response) # SAFE

FLAGGED_MESSAGE == "Content flagged by moderation"
AI_ERROR_MESSAGE == "AiError: upstream timeout"
SQL_ERROR_MESSAGE == "SqlError: storage failure"
LONG_ERROR_MESSAGE == "AiError: (600 characters)"
\* What a call throws: an Error with a message, or a value that is no Error.
AiError == [isError |-> TRUE, message |-> AI_ERROR_MESSAGE]
LongError == [isError |-> TRUE, message |-> LONG_ERROR_MESSAGE]
NonError == [isError |-> FALSE, message |-> NULL]
Errors == {AiError, LongError, NonError}
\* err instanceof Error ? err.message : "Generation failed"
messageOf(err) == IF err.isError THEN err.message ELSE "Generation failed"

(***************************************************************************)
(* Pieces: table graffiti and the semaphore.                               *)
(***************************************************************************)
EmptyTable == <<>>

\* Coordinates are written in thousandths: 1000 is 1 and 500 is 0.5.
One == 1000
Half == 500
\* The values contribute is called with as posX or posY: left out, not a
\* number, or a number.
Missing == [type |-> "undefined", v |-> 0]
NotANumber == [type |-> "string", v |-> 0]
Num(v) == [type |-> "number", v |-> v]
\* Number(pos): NaN for what is not a number
Number(pos) == IF pos.type = "number" THEN [nan |-> FALSE, v |-> pos.v]
               ELSE [nan |-> TRUE, v |-> 0]
\* n || 0.5: NaN and 0 are falsy
orHalf(n) == IF n.nan \/ n.v = 0 THEN Half ELSE n.v
Min(a, b) == IF a <= b THEN a ELSE b
Max(a, b) == IF a >= b THEN a ELSE b
\* Math.max(0, Math.min(1, Number(pos) || 0.5))
coordinateUnclamped(pos) == orHalf(Number(pos))
coordinate(pos) == Max(0, Min(One, orHalf(Number(pos))))

NewRow(text, style) ==
    [status |-> "generating", error_message |-> NULL, art_prompt |-> NULL,
     image_data |-> NULL, original_text |-> text, style |-> style,
     pos_x |-> Half, pos_y |-> Half,
     \* DEFAULT (datetime('now')): the time in whole seconds
     created_at |-> now \div 1000]

\* failPiece: the UPDATE (it matches no row once the piece is deleted); when
\* the UPDATE throws, failPiece's catch logs and nothing is written.
failPieceUpsert(g, id, errorMessage, updateThrows) ==
    IF updateThrows THEN g
    ELSE IF id \notin DOMAIN g
    THEN (id :> [NewRow(NULL, NULL) EXCEPT !.status = "failed",
                                          !.error_message = errorMessage]) @@ g
    ELSE [g EXCEPT ![id].status = "failed", ![id].error_message = errorMessage]
failPieceUnsliced(g, id, errorMessage, updateThrows) ==
    IF updateThrows \/ id \notin DOMAIN g THEN g
    ELSE [g EXCEPT ![id].status = "failed", ![id].error_message = errorMessage]
failPiece(g, id, errorMessage, updateThrows) ==
    IF updateThrows \/ id \notin DOMAIN g THEN g
    ELSE [g EXCEPT ![id].status = "failed",
                   ![id].error_message = slice(errorMessage, 500)]

\* The messages of this.broadcast.
PieceAdded(id) == [type |-> "piece_added", id |-> id]
PieceUpdated(id, status) == [type |-> "piece_updated", id |-> id, status |-> status]
WallHistoryUpdated == [type |-> "wall_history_updated"]
WallRotated(backgroundImage, wallEpoch) ==
    [type |-> "wall_rotated", backgroundImage |-> backgroundImage,
     wallEpoch |-> wallEpoch]

\* What a step broadcasts after it has written table g: piece_updated for
\* piece id when told to and the row is there to be read back.
pieceUpdatedTwice(g, id, told) ==
    IF told /\ id \in DOMAIN g
    THEN <<PieceUpdated(id, g[id].status), PieceUpdated(id, g[id].status)>>
    ELSE <<>>
pieceUpdated(g, id, told) ==
    IF told /\ id \in DOMAIN g THEN <<PieceUpdated(id, g[id].status)>> ELSE <<>>

\* this.pendingGenerations >= this.MAX_CONCURRENT_GENERATIONS
overloadedOffByOne(pending) == pending > MAX_CONCURRENT_GENERATIONS
overloaded(pending) == pending >= MAX_CONCURRENT_GENERATIONS

\* generateArt's finally: Math.max(0, this.pendingGenerations - 1), whatever
\* way the run leaves the try.
finallyReleaseAfterWorkOnly(pending, exit) ==
    IF exit = "deleted" THEN pending
    ELSE IF pending > 0 THEN pending - 1 ELSE 0
finallyRelease(pending, exit) == IF pending > 0 THEN pending - 1 ELSE 0

\* contribute's two write checks: global first, then the caller's address.
\* res is "admit", "Busy" (global denied) or "RateLimited" (address denied).
limited(res, r) == [res |-> res, retryIn |-> r.retryIn, L |-> r.L]
identityLimit(a) ==
    IF a.res = "deny" THEN limited("RateLimited", a) ELSE limited("admit", a)
globalLimit(g) ==
    IF g.res = "deny" THEN limited("Busy", g) ELSE limited("admit", g)
globalThenIdentity(g, ip, t, f2) ==
    IF g.res = "deny" THEN limited("Busy", g)
    ELSE identityLimit(applyCheck(g.L, IpWriteKey(ip), RATE_LIMIT_PER_IP_WRITE, t, f2))
identityThenGlobal(a, t, f1) ==
    IF a.res = "deny" THEN limited("RateLimited", a)
    ELSE globalLimit(applyCheck(a.L, GlobalWriteKey, RATE_LIMIT_GLOBAL_WRITE, t, f1))
writeLimitsIpFirst(L, ip, t, f1, f2) ==
    identityThenGlobal(applyCheck(L, IpWriteKey(ip), RATE_LIMIT_PER_IP_WRITE, t, f2),
                       t, f1)
writeLimits(L, ip, t, f1, f2) ==
    globalThenIdentity(applyCheck(L, GlobalWriteKey, RATE_LIMIT_GLOBAL_WRITE, t, f1),
                       ip, t, f2)

(***************************************************************************)
(* Rotation runs and the archive.                                          *)
(***************************************************************************)
Runs == 1..MaxRotations
NoSnapshot == [id |-> 0, epoch |-> 0, pieces |-> {}]
\* startedEmpty is history: no completed piece was on the canvas when the run
\* started.
IdleRun ==
    [pc |-> "idle", epoch |-> 0, bgImage |-> NULL, snapshot |-> NoSnapshot,
     startedEmpty |-> FALSE]
ScheduledRun == [IdleRun EXCEPT !.pc = "scheduled"]
DoneRun == [IdleRun EXCEPT !.pc = "done"]
\* The runs not yet scheduled, and the one scheduled next.
idleRuns(runs) == {r \in DOMAIN runs : runs[r].pc = "idle"}
nextRun(runs) == CHOOSE r \in idleRuns(runs) : \A q \in idleRuns(runs) : r <= q

\* FROM graffiti WHERE status = 'complete' AND image_data IS NOT NULL
allPieces(g) == DOMAIN g
completedPieces(g) ==
    {id \in DOMAIN g : g[id].status = "complete" /\ g[id].image_data # NULL}

\* ORDER BY created_at DESC LIMIT 24: the last 24 of the rows, oldest first
keepLast(rows, n) ==
    IF Len(rows) <= n THEN rows ELSE SubSeq(rows, Len(rows) - n + 1, Len(rows))

r2KeyOf(snapshotId) == <<"snapshots", snapshotId>>

\* No cleanupOldHistory run and no getWallSnapshot call is suspended.
NoCleanup == [pc |-> "idle", stale |-> {}, deletedIds |-> {}]
NoRead == [pc |-> "idle", r2_key |-> NULL]
NoCalls == [cleanup |-> NoCleanup, read |-> NoRead]

\* The page's useWall hook when it mounts: useState([]), useState(0),
\* useState(null), useState(0), useRef(false); its socket is not open yet.
NoPage ==
    [open |-> FALSE, pieces |-> <<>>, totalPieces |-> 0, backgroundImage |-> NULL,
     wallEpoch |-> 0, hasLoadedHistory |-> FALSE]

Init ==
    /\ now = 0
    /\ rate_limits = [k \in Keys |-> NoRow]
    /\ ret = NoCall
    /\ admitLog = [k \in Keys |-> <<>>]
    /\ clean = [k \in Keys |-> TRUE]
    /\ graffiti = EmptyTable
    /\ job = EmptyTable
    /\ pendingGenerations = 0
    /\ state = [totalPieces |-> 0, backgroundImage |-> NULL, wallEpoch |-> 0]
    /\ nextId = 1
    /\ rot = [r \in Runs |-> IF r = 1 THEN ScheduledRun ELSE IdleRun]
    /\ WALL_HISTORY = EmptyTable
    /\ wall_history_index = {}
    /\ wall_backgrounds = <<>>
    /\ wall_snapshots = {}
    /\ sent = <<>>
    /\ connections = <<>>
    /\ cursorStates = <<>>
    /\ clientCursors = <<>>
    /\ client = NoPage
    /\ intervalSchedules = 1
    /\ calls = NoCalls

\* Time passes between two handlers.
TickSteps == {59999, 60000}
Tick(d) ==
    /\ now + d <= MaxNow
    /\ now' = now + d
    /\ ret' = NoCall
    /\ sent' = <<>>
    /\ admitLog' = [k \in Keys |-> InWindow(admitLog[k], now + d)]
    /\ UNCHANGED <<rate_limits, clean, wallVars, rotVars, connections, cursorVars, client, intervalSchedules, calls>>

\* One call of checkRateLimit on its own, r its result.
Checked(key, limit, r) ==
    /\ SetLimiter(r.L)
    /\ ret' = [op |-> "checkRateLimit", key |-> key, limit |-> limit,
               threw |-> r.threw, res |-> r.res, retryIn |-> r.retryIn,
               had |-> rate_limits[key].payload, at |-> now]
    /\ sent' = <<>>
    /\ UNCHANGED <<now, connections, cursorVars, client, intervalSchedules, calls, wallVars, rotVars>>
CheckRateLimit(key, limit, fault) ==
    Checked(key, limit, applyCheck(Limiter, key, limit, now, fault))

\* The caller of the check that was denied last waits for as long as the
\* message told it to.
Wait ==
    /\ ret.op = "checkRateLimit" /\ ret.res = "deny"
    /\ now + 1000 * ret.retryIn <= MaxNow
    /\ now' = now + 1000 * ret.retryIn
    /\ admitLog' = [k \in Keys |-> InWindow(admitLog[k], now')]
    /\ sent' = <<>>
    /\ UNCHANGED <<ret, rate_limits, clean, wallVars, rotVars, connections, cursorVars, client, intervalSchedules, calls>>

\* The stored payload of a row is damaged outside the coordinator's code.
CorruptRecord(key, kind) ==
    /\ rate_limits[key].payload \notin {"none", kind}
    /\ rate_limits' = [rate_limits EXCEPT ![key] = CorruptRow(kind)]
    /\ ret' = NoCall
    /\ sent' = <<>>
    /\ clean' = [clean EXCEPT ![key] = FALSE]
    /\ admitLog' = [admitLog EXCEPT ![key] = <<>>]
    /\ UNCHANGED <<now, connections, cursorVars, client, intervalSchedules, calls, wallVars, rotVars>>

(***************************************************************************)
(* contribute.  Its only await is verifyTurnstile, before it reads or      *)
(* writes anything, so the rest of the call is one step.                   *)
(***************************************************************************)
Tokens == {"valid", "missing", "rejected"}

\* verifyTurnstile: nothing is asked when TURNSTILE_SECRET is not set; a
\* missing token is refused without a call, a token the service does not
\* accept after it.
verifyTurnstile(secretSet, token) ==
    IF ~secretSet THEN "skipped"
    ELSE IF token = "missing" THEN "required"
    ELSE IF token = "rejected" THEN "failed"
    ELSE "verified"

\* A call: the caller's address, the token it sends and whether the
\* deployment has TURNSTILE_SECRET.
Call(ip, secretSet, token, posX, posY) ==
    [ip |-> ip, secretSet |-> secretSet, token |-> token, posX |-> posX, posY |-> posY]

Returned(from, res, retryAfter, id) ==
    [op |-> "contribute", ip |-> from.ip, secretSet |-> from.secretSet,
     token |-> from.token, posX |-> from.posX, posY |-> from.posY,
     res |-> res, retryIn |-> retryAfter, id |-> id]

RejectedAfterInsert(from, res, retryAfter, L) ==
    /\ SetLimiter(L)
    /\ ret' = Returned(from, res, retryAfter, 0)
    /\ sent' = <<>>
    /\ graffiti' = IF res = "Overloaded"
                   THEN (nextId :> NewRow("a cat", NULL)) @@ graffiti ELSE graffiti
    /\ UNCHANGED <<now, connections, cursorVars, client, intervalSchedules, calls, job, pendingGenerations, state, nextId,
                   rotVars>>
Rejected(from, res, retryAfter, L) ==
    /\ SetLimiter(L)
    /\ ret' = Returned(from, res, retryAfter, 0)
    /\ sent' = <<>>
    /\ UNCHANGED <<now, connections, cursorVars, client, intervalSchedules, calls, wallVars, rotVars>>

\* this.schedule(0, "generateArt", { id, text }): the run is queued and the
\* call goes on to its return without entering it.
scheduleAwaited(jobs, id) == (id :> "moderation") @@ jobs
schedule(jobs, id) == (id :> "scheduled") @@ jobs

\* The call from the write checks (lim their result) to its return.
SubmittedValidatedFirst(from, lim, san, cleanStyle, id) ==
    IF san.rejected # NULL THEN Rejected(from, "Invalid", 0, Limiter)
    ELSE IF lim.res # "admit" THEN Rejected(from, lim.res, lim.retryIn, lim.L)
    ELSE IF overloaded(pendingGenerations) THEN Rejected(from, "Overloaded", 0, lim.L)
    ELSE IF cleanStyle # NULL /\ StrLen(cleanStyle) < 5
    THEN Rejected(from, "StyleTooShort", 0, Limiter)
    ELSE /\ SetLimiter(lim.L)
         /\ graffiti' = (id :> [NewRow(san.clean, cleanStyle)
                                   EXCEPT !.pos_x = coordinate(from.posX),
                                          !.pos_y = coordinate(from.posY)]) @@ graffiti
         /\ state' = [state EXCEPT !.totalPieces = @ + 1]
         /\ pendingGenerations' = pendingGenerations + 1
         /\ job' = schedule(job, id)
         /\ nextId' = id + 1
         /\ ret' = Returned(from, "ok", 0, id)
         /\ sent' = <<PieceAdded(id)>>
         /\ UNCHANGED <<now, connections, cursorVars, client, intervalSchedules, calls, rotVars>>
Submitted(from, lim, san, cleanStyle, id) ==
    IF lim.res # "admit" THEN Rejected(from, lim.res, lim.retryIn, lim.L)
    ELSE IF san.rejected # NULL THEN Rejected(from, "Invalid", 0, lim.L)
    ELSE IF overloaded(pendingGenerations) THEN Rejected(from, "Overloaded", 0, lim.L)
    ELSE IF cleanStyle # NULL /\ StrLen(cleanStyle) < 5
    THEN Rejected(from, "StyleTooShort", 0, lim.L)
    ELSE /\ SetLimiter(lim.L)
         /\ graffiti' = (id :> [NewRow(san.clean, cleanStyle)
                                   EXCEPT !.pos_x = coordinate(from.posX),
                                          !.pos_y = coordinate(from.posY)]) @@ graffiti
         /\ state' = [state EXCEPT !.totalPieces = @ + 1]
         /\ pendingGenerations' = pendingGenerations + 1
         /\ job' = schedule(job, id)
         /\ nextId' = id + 1
         /\ ret' = Returned(from, "ok", 0, id)
         /\ sent' = <<PieceAdded(id)>>
         /\ UNCHANGED <<now, connections, cursorVars, client, intervalSchedules, calls, rotVars>>

contributeLimitsFirst(ip, text, style, secretSet, token, posX, posY, f1, f2) ==
    IF verifyTurnstile(secretSet, token) \in {"required", "failed"}
    THEN Rejected(Call(ip, secretSet, token, posX, posY), "Unverified", 0,
                  writeLimits(Limiter, ip, now, f1, f2).L)
    ELSE Submitted(Call(ip, secretSet, token, posX, posY),
                   writeLimits(Limiter, ip, now, f1, f2),
                   sanitizeInput(text), cleanStyleOf(style), nextId)
contributeAt(ip, text, style, secretSet, token, posX, posY, f1, f2) ==
    IF verifyTurnstile(secretSet, token) \in {"required", "failed"}
    THEN Rejected(Call(ip, secretSet, token, posX, posY), "Unverified", 0, Limiter)
    ELSE Submitted(Call(ip, secretSet, token, posX, posY),
                   writeLimits(Limiter, ip, now, f1, f2),
                   sanitizeInput(text), cleanStyleOf(style), nextId)
\* The call without coordinates.
contribute(ip, text, style, secretSet, token, f1, f2) ==
    contributeAt(ip, text, style, secretSet, token, Missing, Missing, f1, f2)

(***************************************************************************)
(* generateArt: one step per stretch of code between two awaits.           *)
(***************************************************************************)
\* schedule(0, "generateArt", { id }) is one-shot: a run that has returned is
\* not started again.
exitedRearmed(jobs, id) == [jobs EXCEPT ![id] = "scheduled"]
exited(jobs, id) == [jobs EXCEPT ![id] = "done"]

\* The run of piece id leaves the try on path exit; the finally releases.
\* told: the path reaches a piece_updated broadcast (failPiece's UPDATE did
\* not throw, or the completing UPDATE was done).
GenExit(id, exit, g, told) ==
    /\ graffiti' = g
    /\ sent' = pieceUpdated(g, id, told)
    /\ job' = exited(job, id)
    /\ pendingGenerations' = finallyRelease(pendingGenerations, exit)
    /\ ret' = [op |-> "generateArt", id |-> id, exit |-> exit, told |-> told]
    /\ UNCHANGED <<now, connections, cursorVars, client, intervalSchedules, calls, limiterVars, state, nextId, rotVars>>

GenAwait(id, pc) ==
    /\ job' = [job EXCEPT ![id] = pc]
    /\ ret' = NoCall
    /\ sent' = <<>>
    /\ UNCHANGED <<now, connections, cursorVars, client, intervalSchedules, calls, limiterVars, graffiti, pendingGenerations, state, nextId, rotVars>>

\* containsProfanity(text) || (pieceStyle && containsProfanity(pieceStyle))
prefilteredTextOnly(row) == containsProfanity(row.original_text)
prefiltered(row) ==
    \/ containsProfanity(row.original_text)
    \/ (row.style # NULL /\ containsProfanity(row.style))

\* From the scheduled callback to the moderation call.
GenStart(id, selectThrows, failUpdateThrows) ==
    /\ id \in DOMAIN job
    /\ job[id] = "scheduled"
    /\ IF selectThrows
       THEN GenExit(id, "exception",
                    failPiece(graffiti, id, SQL_ERROR_MESSAGE, failUpdateThrows),
                    ~failUpdateThrows)
       ELSE IF id \notin DOMAIN graffiti
       THEN GenExit(id, "deleted", graffiti, FALSE)
       ELSE IF prefiltered(graffiti[id])
       THEN GenExit(id, "prefilter",
                    failPiece(graffiti, id, FLAGGED_MESSAGE, failUpdateThrows),
                    ~failUpdateThrows)
       ELSE GenAwait(id, "moderation")

\* The moderation call returns response or throws.
GenModeration(id, response, callThrows, err, failUpdateThrows) ==
    /\ id \in DOMAIN job
    /\ job[id] = "moderation"
    /\ IF callThrows
       THEN GenExit(id, "exception",
                    failPiece(graffiti, id, messageOf(err), failUpdateThrows),
                    ~failUpdateThrows)
       ELSE IF flagged(response)
       THEN /\ graffiti' = failPiece(graffiti, id, FLAGGED_MESSAGE, failUpdateThrows)
            /\ sent' = pieceUpdated(graffiti', id, ~failUpdateThrows)
            /\ job' = exited(job, id)
            /\ pendingGenerations' = finallyRelease(pendingGenerations, "unsafe")
            /\ ret' = [op |-> "moderation", id |-> id, response |-> response,
                       exit |-> "unsafe", updateThrew |-> failUpdateThrows]
            /\ UNCHANGED <<now, connections, cursorVars, client, intervalSchedules, calls, limiterVars, state, nextId, rotVars>>
       ELSE /\ job' = [job EXCEPT ![id] = "transform"]
            /\ ret' = [op |-> "moderation", id |-> id, response |-> response,
                       exit |-> "await", updateThrew |-> FALSE]
            /\ sent' = <<>>
            /\ UNCHANGED <<now, connections, cursorVars, client, intervalSchedules, calls, limiterVars, graffiti, pendingGenerations, state,
                           nextId, rotVars>>

\* The transform call returns or throws.
GenTransform(id, callThrows, err, failUpdateThrows) ==
    /\ id \in DOMAIN job
    /\ job[id] = "transform"
    /\ IF callThrows
       THEN GenExit(id, "exception",
                    failPiece(graffiti, id, messageOf(err), failUpdateThrows),
                    ~failUpdateThrows)
       ELSE GenAwait(id, "synthesis")

\* The synthesis call returns or throws; then the completing UPDATE and the
\* broadcast in its own try.
GenSynthesis(id, callThrows, err, updateThrows, failUpdateThrows) ==
    /\ id \in DOMAIN job
    /\ job[id] = "synthesis"
    /\ IF callThrows
       THEN GenExit(id, "exception",
                    failPiece(graffiti, id, messageOf(err), failUpdateThrows),
                    ~failUpdateThrows)
       ELSE IF updateThrows
       THEN GenExit(id, "exception",
                    failPiece(graffiti, id, SQL_ERROR_MESSAGE, failUpdateThrows),
                    ~failUpdateThrows)
       ELSE IF id \notin DOMAIN graffiti
       THEN GenExit(id, "vanished", graffiti, FALSE)
       ELSE GenExit(id, "complete",
                    [graffiti EXCEPT ![id].status = "complete",
                                     ![id].art_prompt = "prompt",
                                     ![id].image_data = "data:image/png;base64"],
                    TRUE)

(***************************************************************************)
(* rotateWall: one step per stretch of code between two awaits.  A run     *)
(* that throws is caught by the handler's own catch and ends there.        *)
(***************************************************************************)
\* res is "failed" (the catch of rotateWall ran) or "rotated"; archive tells
\* how the archive step went: "skipped" (not reached), "empty" (no completed
\* piece), "putFailed", "indexFailed" or "archived".
RotEnd(r, res, archive) ==
    /\ rot' = [rot EXCEPT ![r] = DoneRun]
    /\ ret' = [op |-> "rotateWall", run |-> r, res |-> res, archive |-> archive]

\* DELETE FROM graffiti, setState, the wall_rotated broadcast and the pruning
\* of wall_backgrounds: the tail of the run, reached without another await.
\* before is what the archive step has broadcast in the same stretch of code.
RotClearIfArchived(r, backgrounds, archive, before) ==
    IF archive \in {"putFailed", "indexFailed"}
    THEN /\ RotEnd(r, "failed", archive)
         /\ sent' = before
         /\ UNCHANGED <<now, connections, cursorVars, client, intervalSchedules, calls, limiterVars, wallVars, wall_backgrounds>>
    ELSE /\ graffiti' = EmptyTable
         /\ state' = [totalPieces |-> 0, backgroundImage |-> rot[r].bgImage,
                      wallEpoch |-> rot[r].epoch]
         /\ sent' = Append(before, WallRotated(rot[r].bgImage, rot[r].epoch))
         /\ wall_backgrounds' = keepLast(backgrounds, 24)
         /\ RotEnd(r, "rotated", archive)
         /\ UNCHANGED <<now, connections, cursorVars, client, intervalSchedules, calls, limiterVars, job, pendingGenerations,
                        nextId>>
RotClear(r, backgrounds, archive, before) ==
    /\ graffiti' = EmptyTable
    /\ state' = [totalPieces |-> 0, backgroundImage |-> rot[r].bgImage,
                 wallEpoch |-> rot[r].epoch]
    /\ sent' = Append(before, WallRotated(rot[r].bgImage, rot[r].epoch))
    /\ wall_backgrounds' = keepLast(backgrounds, 24)
    /\ RotEnd(r, "rotated", archive)
    /\ UNCHANGED <<now, connections, cursorVars, client, intervalSchedules, calls, limiterVars, job, pendingGenerations, nextId>>

\* The scheduled callback starts: epoch is read, the synthesis call is made.
RotStart(r) ==
    /\ rot[r].pc = "scheduled"
    /\ rot' = [rot EXCEPT ![r].pc = "synthesis", ![r].epoch = state.wallEpoch + 1,
                          ![r].startedEmpty = completedPieces(graffiti) = {}]
    /\ ret' = NoCall
    /\ sent' = <<>>
    /\ UNCHANGED <<now, connections, cursorVars, client, intervalSchedules, calls, limiterVars, wallVars, WALL_HISTORY, wall_history_index,
                   wall_backgrounds, wall_snapshots>>

\* rotateWall's catch: the error is logged and the run returns.
RotCaughtThenClear(r) ==
    /\ RotEnd(r, "failed", "skipped")
    /\ graffiti' = EmptyTable
    /\ state' = [state EXCEPT !.totalPieces = 0]
    /\ sent' = <<WallRotated(state.backgroundImage, state.wallEpoch)>>
    /\ UNCHANGED <<now, connections, cursorVars, client, intervalSchedules, calls, limiterVars, job, pendingGenerations,
                   nextId, WALL_HISTORY, wall_history_index, wall_backgrounds,
                   wall_snapshots>>
RotCaught(r) ==
    /\ RotEnd(r, "failed", "skipped")
    /\ sent' = <<>>
    /\ UNCHANGED <<now, connections, cursorVars, client, intervalSchedules, calls, limiterVars, wallVars, WALL_HISTORY,
                   wall_history_index, wall_backgrounds, wall_snapshots>>

\* The synthesis call returns or throws; the background and snapshot rows
\* are written and the completed pieces read.
RotSynthesis(r, callThrows) ==
    LET bgId == <<"bg", r>>
        completed == completedPieces(graffiti)
        snapshot == [id |-> r, epoch |-> state.wallEpoch, pieces |-> completed]
        backgrounds == Append(wall_backgrounds, bgId)
        run == [rot[r] EXCEPT !.bgImage = bgId, !.startedEmpty = FALSE]
    IN  /\ rot[r].pc = "synthesis"
        /\ IF callThrows
           THEN RotCaught(r)
           ELSE /\ wall_snapshots' = wall_snapshots
                        \cup {[epoch |-> rot[r].epoch, background_id |-> bgId]}
                /\ IF completed # {}
                   THEN /\ rot' = [rot EXCEPT ![r] = [run EXCEPT !.pc = "put",
                                                               !.snapshot = snapshot]]
                        /\ wall_backgrounds' = backgrounds
                        /\ ret' = NoCall
                        /\ sent' = <<>>
                        /\ UNCHANGED <<now, connections, cursorVars, client, intervalSchedules, calls, limiterVars, wallVars>>
                   ELSE /\ graffiti' = EmptyTable
                        /\ state' = [totalPieces |-> 0, backgroundImage |-> bgId,
                                     wallEpoch |-> rot[r].epoch]
                        /\ sent' = <<WallRotated(bgId, rot[r].epoch)>>
                        /\ wall_backgrounds' = keepLast(backgrounds, 24)
                        /\ RotEnd(r, "rotated", "empty")
                        /\ UNCHANGED <<now, connections, cursorVars, client, intervalSchedules, calls, limiterVars, job, pendingGenerations, nextId>>
                /\ UNCHANGED <<WALL_HISTORY, wall_history_index>>

\* The archive row of a snapshot, with the epoch read at the time of the insert.
indexRow(snapshot, epoch) ==
    [id |-> snapshot.id, epoch |-> epoch, piece_count |-> Cardinality(snapshot.pieces),
     r2_key |-> r2KeyOf(snapshot.id)]

\* What the archive step does once the put has succeeded: the index insert,
\* and on its failure the compensating delete is awaited.
archiveAfterPut(index, snapshot, epoch, insertThrows) ==
    IF insertThrows THEN [index |-> index, pc |-> "compensate"]
    ELSE [index |-> index \cup {indexRow(snapshot, epoch)}, pc |-> "clear"]

\* The wall_history_updated broadcast in its own try.
historyUpdated(broadcastThrows) ==
    IF broadcastThrows THEN <<>> ELSE <<WallHistoryUpdated>>

\* WALL_HISTORY.put returns or throws; then the index insert.
RotPut(r, putThrows, insertThrows, broadcastThrows) ==
    LET snapshot == rot[r].snapshot
        a == archiveAfterPut(wall_history_index, snapshot, state.wallEpoch, insertThrows)
    IN  /\ rot[r].pc = "put"
        /\ IF putThrows
           THEN /\ RotClear(r, wall_backgrounds, "putFailed", <<>>)
                /\ UNCHANGED <<WALL_HISTORY, wall_history_index, wall_snapshots>>
           ELSE /\ WALL_HISTORY' = (r2KeyOf(snapshot.id) :> snapshot) @@ WALL_HISTORY
                /\ wall_history_index' = a.index
                /\ IF a.pc = "compensate"
                   THEN /\ rot' = [rot EXCEPT ![r].pc = "compensate"]
                        /\ ret' = NoCall
                        /\ sent' = <<>>
                        /\ UNCHANGED <<now, connections, cursorVars, client, intervalSchedules, calls, limiterVars, wallVars, wall_backgrounds>>
                   ELSE RotClear(r, wall_backgrounds, "archived",
                                 historyUpdated(broadcastThrows))
                /\ UNCHANGED wall_snapshots

\* A table without the row of key k.
without(table, k) == [x \in DOMAIN table \ {k} |-> table[x]]

\* The compensating WALL_HISTORY.delete returns or throws (best effort).
RotCompensate(r, deleteThrows, broadcastThrows) ==
    /\ rot[r].pc = "compensate"
    /\ WALL_HISTORY' = IF deleteThrows THEN WALL_HISTORY
                       ELSE without(WALL_HISTORY, r2KeyOf(rot[r].snapshot.id))
    /\ RotClear(r, wall_backgrounds, "indexFailed", historyUpdated(broadcastThrows))
    /\ UNCHANGED <<wall_history_index, wall_snapshots>>

\* The hourly schedule queues a run.
RotTimer ==
    /\ idleRuns(rot) # {}
    /\ rot' = [rot EXCEPT ![nextRun(rot)] = ScheduledRun]
    /\ ret' = NoCall
    /\ sent' = <<>>
    /\ UNCHANGED <<now, connections, cursorVars, client, intervalSchedules, calls, limiterVars, wallVars, WALL_HISTORY, wall_history_index,
                   wall_backgrounds, wall_snapshots>>

(***************************************************************************)
(* adminReset: no await, one step.                                         *)
(***************************************************************************)
\* The key of the deployment, env.ADMIN_KEY, when it has one.
ADMIN_KEY == "s3cret"

\* !this.env.ADMIN_KEY || adminKey !== this.env.ADMIN_KEY; NULL is a key that
\* is not there.
unauthorizedUnlessUnset(envKey, adminKey) == adminKey # envKey
unauthorized(envKey, adminKey) == envKey = NULL \/ adminKey # envKey

\* SELECT COUNT(*) of the five tables
counts ==
    [graffiti |-> Cardinality(DOMAIN graffiti),
     wall_history_index |-> Cardinality(wall_history_index),
     wall_snapshots |-> Cardinality(wall_snapshots),
     wall_backgrounds |-> Len(wall_backgrounds),
     rate_limits |-> Cardinality({k \in Keys : rate_limits[k] # NoRow})]
NoCounts ==
    [graffiti |-> 0, wall_history_index |-> 0, wall_snapshots |-> 0,
     wall_backgrounds |-> 0, rate_limits |-> 0]

adminReset(envKey, adminKey, scheduleThrows) ==
    IF unauthorized(envKey, adminKey)
    THEN /\ ret' = [op |-> "adminReset", res |-> "Unauthorized", envKey |-> envKey,
                    adminKey |-> adminKey, deleted |-> NoCounts,
                    backgroundScheduled |-> FALSE]
         /\ sent' = <<>>
         /\ UNCHANGED <<now, connections, cursorVars, client, intervalSchedules, calls, limiterVars, wallVars, rotVars>>
    ELSE /\ graffiti' = EmptyTable
         /\ wall_history_index' = {}
         /\ wall_snapshots' = {}
         /\ wall_backgrounds' = <<>>
         /\ rate_limits' = [k \in Keys |-> NoRow]
         /\ admitLog' = [k \in Keys |-> <<>>]
         /\ clean' = [k \in Keys |-> FALSE]
         /\ state' = [totalPieces |-> 0, backgroundImage |-> NULL, wallEpoch |-> 0]
         /\ rot' = IF scheduleThrows THEN rot
                   ELSE [rot EXCEPT ![nextRun(rot)] = ScheduledRun]
         /\ ret' = [op |-> "adminReset", res |-> "ok", envKey |-> envKey,
                    adminKey |-> adminKey, deleted |-> counts,
                    backgroundScheduled |-> ~scheduleThrows]
         /\ sent' = <<WallRotated("", 0)>>
         /\ UNCHANGED <<now, connections, cursorVars, client, intervalSchedules, calls, job, pendingGenerations, nextId, WALL_HISTORY>>

(***************************************************************************)
(* The archive's readers and its retention job.                            *)
(***************************************************************************)
\* The ids getWallSnapshot is called with: the snapshot ids, and 0 for an id
\* that fails the check of its type and length.
BadId == 0
SnapshotIds == Runs \cup {BadId}

Read(id, res) ==
    /\ ret' = [op |-> "getWallSnapshot", id |-> id, res |-> res]
    /\ sent' = <<>>
    /\ UNCHANGED <<now, connections, cursorVars, client, intervalSchedules, wallVars, rotVars>>

\* After the read check r: the index row is looked up and the object asked for.
Looked(id, r) ==
    /\ SetLimiter(r.L)
    /\ IF r.res = "deny"
       THEN Read(id, "RateLimited") /\ UNCHANGED calls
       ELSE IF \A row \in wall_history_index : row.id # id
       THEN Read(id, "null") /\ UNCHANGED calls
       ELSE /\ Read(id, "await")
            /\ calls' = [calls EXCEPT !.read = [pc |-> "get", r2_key |-> r2KeyOf(id)]]

\* getWallSnapshot up to its await of WALL_HISTORY.get.
getWallSnapshot(ip, id) ==
    /\ calls.read.pc = "idle"
    /\ IF id = BadId
       THEN Read(id, "null") /\ UNCHANGED <<limiterVars, calls>>
       ELSE Looked(id, applyCheck(Limiter, IpReadKey(ip), RATE_LIMIT_PER_IP_READ,
                                  now, "none"))

\* WALL_HISTORY.get returns the object, returns null or throws.
GetReturn(getThrows) ==
    /\ calls.read.pc = "get"
    /\ calls' = [calls EXCEPT !.read = NoRead]
    /\ ret' = [op |-> "getWallSnapshot", id |-> calls.read.r2_key[2],
               res |-> IF getThrows THEN "throws"
                       ELSE IF calls.read.r2_key \in DOMAIN WALL_HISTORY
                       THEN "snapshot" ELSE "missing"]
    /\ sent' = <<>>
    /\ UNCHANGED <<now, connections, cursorVars, client, intervalSchedules, limiterVars, wallVars, rotVars>>

\* The index rows whose id is in ids are deleted, one statement per id.
deleteRows(index, ids) == {row \in index : row.id \notin ids}

\* A cleanupOldHistory run that has no object left to delete removes the
\* index rows of the objects it deleted and returns.
CleanupStep(run) ==
    IF run.stale = {}
    THEN /\ wall_history_index' = deleteRows(wall_history_index, run.deletedIds)
         /\ calls' = [calls EXCEPT !.cleanup = NoCleanup]
    ELSE /\ calls' = [calls EXCEPT !.cleanup = run]
         /\ UNCHANGED wall_history_index

\* cleanupOldHistory starts.  stale is the rows older than 30 days; the model
\* keeps no created_at, so any of the rows may be that old.
cleanupOldHistory(stale) ==
    /\ calls.cleanup.pc = "idle"
    /\ CleanupStep([pc |-> "delete", stale |-> stale, deletedIds |-> {}])
    /\ ret' = [op |-> "cleanupOldHistory", stale |-> stale]
    /\ sent' = <<>>
    /\ UNCHANGED <<now, connections, cursorVars, client, intervalSchedules, limiterVars, wallVars, rot, WALL_HISTORY,
                   wall_backgrounds, wall_snapshots>>

\* The awaited WALL_HISTORY.delete of row returns or throws.
CleanupDelete(row, deleteThrows) ==
    /\ calls.cleanup.pc = "delete"
    /\ row \in calls.cleanup.stale
    /\ WALL_HISTORY' = IF deleteThrows THEN WALL_HISTORY
                       ELSE without(WALL_HISTORY, row.r2_key)
    /\ CleanupStep([calls.cleanup EXCEPT
                       !.stale = @ \ {row},
                       !.deletedIds = IF deleteThrows THEN @ ELSE @ \cup {row.id}])
    /\ ret' = NoCall
    /\ sent' = <<>>
    /\ UNCHANGED <<now, connections, cursorVars, client, intervalSchedules, limiterVars, wallVars, rot,
                   wall_backgrounds, wall_snapshots>>

(***************************************************************************)
(* Sessions: onConnect and the close of a connection.                      *)
(***************************************************************************)
\* ctx.request.headers.get("CF-Connecting-IP") ?? "unknown-ip"
NoHeader == "no CF-Connecting-IP header"
ipOf(header) == IF header = NoHeader THEN "unknown-ip" ELSE header

\* A connection as the framework hands it to onConnect: it is accepted, and
\* so among this.getConnections(), and has no state yet.
Accepted == [ip |-> NULL]
accept(conns) == Append(conns, Accepted)

\* getConnectionCount(): one count per connection of this.getConnections()
RECURSIVE getConnectionCount(_)
getConnectionCount(conns) ==
    IF conns = <<>> THEN 0 ELSE 1 + getConnectionCount(Tail(conns))

\* count >= MAX_CONNECTIONS
fullAboveCap(count) == count > MAX_CONNECTIONS + 1
full(count) == count >= MAX_CONNECTIONS

\* sequence seq once the connection at position i is gone
removeAt(seq, i) == SubSeq(seq, 1, i - 1) \o SubSeq(seq, i + 1, Len(seq))

\* The cursor part of connection.state before the session has sent a cursor:
\* cursorX is undefined.  conn.id is a random identifier that nothing reads
\* before the session has a cursor, so the model draws it when the first
\* cursor arrives.
NoCursor == [id |-> 0, cursorX |-> Missing, cursorY |-> Missing, cursorName |-> ""]
\* const [cursors, setCursors] = useState<CursorPosition[]>([])
NoCursors == <<>>

ConnIds == 1..(2 * MaxSessions)
\* the identifiers in a list of cursor states or of cursor entries
idsOf(seq) == {seq[i].id : i \in 1..Len(seq)}
shownIds(clients) == UNION {idsOf(clients[i]) : i \in 1..Len(clients)}
\* an identifier no live session has and no client displays
freshId(states, clients) ==
    CHOOSE id \in ConnIds :
        /\ id \notin idsOf(states) \cup shownIds(clients)
        /\ \A other \in ConnIds :
              other \notin idsOf(states) \cup shownIds(clients) => id <= other

\* Number.parseFloat(part), for the parts the model sends
parseFloat(part) ==
    CASE part = "0.25" -> [nan |-> FALSE, v |-> 250]
      [] part = "1.5" -> [nan |-> FALSE, v |-> 1500]
      [] part = "-1" -> [nan |-> FALSE, v |-> -1000]
      [] OTHER -> [nan |-> TRUE, v |-> 0]
\* n || 0: NaN is falsy
orZero(n) == IF n.nan THEN 0 ELSE n.v
\* Math.max(0, Math.min(1, Number.parseFloat(part) || 0))
cursorCoordinateUnclamped(part) == orZero(parseFloat(part))
cursorCoordinate(part) == Max(0, Min(One, orZero(parseFloat(part))))
\* (parts.slice(2).join(",") || "Anonymous").slice(0, 50)
cursorNameOf(name) == slice(IF name = "" THEN "Anonymous" ELSE name, 50)

\* The messages of a session: "C:<x>,<y>,<name>", and the JSON text of a
\* structured call.
CursorMessage(x, y, name) == [prefix |-> "C:", x |-> x, y |-> y, name |-> name]
RpcMessage == [prefix |-> "{", x |-> "", y |-> "", name |-> ""]
\* typeof message === "string" && message.startsWith("C:")
startsWithAnything(message) == TRUE
startsWithC(message) == message.prefix = "C:"

\* onMessage from the session at position i.  A cursor message ends in
\* connection.setState with the cursor and is not passed on; every other
\* message goes to super.onMessage, which decodes it and runs the call it
\* names: the model has those calls as actions of their own.
onMessage(i, message) ==
    /\ i \in 1..Len(connections)
    /\ cursorStates' =
          IF startsWithC(message)
          THEN [cursorStates EXCEPT ![i] =
                  [id |-> IF @.id = 0 THEN freshId(cursorStates, clientCursors) ELSE @.id,
                   cursorX |-> Num(cursorCoordinate(message.x)),
                   cursorY |-> Num(cursorCoordinate(message.y)),
                   cursorName |-> cursorNameOf(message.name)]]
          ELSE cursorStates
    /\ ret' = [op |-> "onMessage", session |-> i, message |-> message,
               forwarded |-> ~startsWithC(message)]
    /\ sent' = <<>>
    /\ UNCHANGED <<now, connections, clientCursors, client, intervalSchedules, calls,
                   limiterVars, wallVars, rotVars>>

\* The cursors the tick collects: one entry per connection whose cursorX is
\* not undefined, in the order of this.getConnections().
RECURSIVE cursors(_)
cursors(states) ==
    IF states = <<>> THEN <<>>
    ELSE (IF Head(states).cursorX # Missing
          THEN <<[id |-> Head(states).id,
                  name |-> IF Head(states).cursorName = "" THEN "Anonymous"
                           ELSE Head(states).cursorName,
                  x |-> Head(states).cursorX.v, y |-> Head(states).cursorY.v]>>
          ELSE <<>>) \o cursors(Tail(states))

CursorUpdate(list) == [type |-> "cursor_update", cursors |-> list]
\* if (cursors.length > 0) this.broadcast(...)
tickMessages(list) == IF Len(list) > 0 THEN <<CursorUpdate(list)>> ELSE <<>>

\* case "cursor_update": setCursors(msg.cursors), in every client
received(clients, messages) ==
    IF messages = <<>> THEN clients
    ELSE [i \in DOMAIN clients |-> messages[Len(messages)].cursors]

\* One run of the 100 ms interval callback.
cursorBroadcast ==
    /\ sent' = tickMessages(cursors(cursorStates))
    /\ clientCursors' = received(clientCursors, sent')
    /\ ret' = [op |-> "cursorBroadcast"]
    /\ UNCHANGED <<now, connections, cursorStates, client, intervalSchedules, calls,
                   limiterVars, wallVars, rotVars>>

\* SELECT ... FROM graffiti ORDER BY created_at DESC LIMIT 50: the lists of
\* ids the query may return.  SQL leaves open in which order rows of one
\* created_at come, and which of them the limit keeps.
selected(g) ==
    LET n == Min(Cardinality(DOMAIN g), 50)
    IN  {q \in [1..n -> DOMAIN g] :
           /\ \A i, j \in 1..n :
                 i < j => q[i] # q[j] /\ g[q[i]].created_at >= g[q[j]].created_at
           /\ \A id \in DOMAIN g \ {q[i] : i \in 1..n} :
                 \A i \in 1..n : g[id].created_at <= g[q[i]].created_at}
\* pieces.reverse()
reverse(q) == [i \in 1..Len(q) |-> q[Len(q) + 1 - i]]

\* The wall_history message of connection.send.
WallHistory(pieces) ==
    [type |-> "wall_history", pieces |-> pieces, total |-> state.totalPieces,
     backgroundImage |-> state.backgroundImage, wallEpoch |-> state.wallEpoch]

\* onConnect for the socket of any client: what the coordinator does.
accepted(header) ==
    /\ IF full(getConnectionCount(accept(connections)))
       THEN /\ connections' = connections
            /\ UNCHANGED cursorVars
            /\ ret' = [op |-> "onConnect", res |-> "closed", code |-> 1013,
                       reason |-> "Too many connections", ip |-> NULL,
                       message |-> NULL]
       ELSE /\ connections' = Append(connections, [ip |-> ipOf(header)])
            /\ cursorStates' = Append(cursorStates, NoCursor)
            /\ clientCursors' = Append(clientCursors, NoCursors)
            /\ \E pieces \in selected(graffiti) :
                  ret' = [op |-> "onConnect", res |-> "admitted", code |-> 0,
                          reason |-> NULL, ip |-> ipOf(header),
                          message |-> WallHistory(reverse(pieces))]
    /\ sent' = <<>>
    /\ UNCHANGED <<now, intervalSchedules, calls, limiterVars, wallVars, rotVars>>

\* A client other than the page opens a socket.
onConnect(header) == accepted(header) /\ UNCHANGED client

\* The connection at position i closes, with or without a close frame.
closed(i) ==
    /\ i \in 1..Len(connections)
    /\ connections' = SubSeq(connections, 1, i - 1)
                          \o SubSeq(connections, i + 1, Len(connections))
    /\ cursorStates' = removeAt(cursorStates, i)
    /\ clientCursors' = removeAt(clientCursors, i)
    /\ ret' = [op |-> "onClose"]
    /\ sent' = <<>>
    /\ UNCHANGED <<now, intervalSchedules, calls, limiterVars, wallVars, rotVars>>

\* The socket of a client other than the page closes.
Disconnect(i) == closed(i) /\ UNCHANGED client

(***************************************************************************)
(* useWall: the hook of one page.  The page lives on while its socket      *)
(* closes and opens again (useAgent reconnects); its state and its refs    *)
(* are those of the mounted component, so they outlive the socket.  The    *)
(* page is the only client there is when it connects.                      *)
(***************************************************************************)
\* The pieces of a message as the client keeps them: id and status of the
\* rows of table g the message carries.
piecesOf(g, ids) == [i \in 1..Len(ids) |-> [id |-> ids[i], status |-> g[ids[i]].status]]

\* onStateUpdate: setTotalPieces(state.totalPieces)
onStateUpdate(page, synced) == [page EXCEPT !.totalPieces = synced.totalPieces]

\* The switch of onMessage; msg.pieces of wall_history are pieces as above.
useWall(page, msg) ==
    CASE msg.type = "wall_history" ->
            IF ~page.hasLoadedHistory
            THEN [page EXCEPT !.pieces = msg.pieces,
                              !.totalPieces = msg.total,
                              !.backgroundImage = msg.backgroundImage,
                              !.wallEpoch = msg.wallEpoch,
                              !.hasLoadedHistory = TRUE]
            ELSE page
      [] msg.type = "piece_added" ->
            [page EXCEPT !.pieces = Append(@, [id |-> msg.id, status |-> "generating"])]
      [] msg.type = "piece_updated" ->
            [page EXCEPT !.pieces =
                [i \in 1..Len(@) |->
                    IF @[i].id = msg.id THEN [id |-> msg.id, status |-> msg.status]
                    ELSE @[i]]]
      [] msg.type = "wall_rotated" ->
            [page EXCEPT !.pieces = <<>>,
                         !.backgroundImage = msg.backgroundImage,
                         !.wallEpoch = msg.wallEpoch,
                         !.hasLoadedHistory = TRUE]
      [] OTHER -> page

\* The page after the messages msgs, in order.
RECURSIVE handled(_, _)
handled(page, msgs) ==
    IF msgs = <<>> THEN page ELSE handled(useWall(page, Head(msgs)), Tail(msgs))

\* The page has got everything the coordinator sent it.
upToDate == client.open => sent = <<>> /\ client.totalPieces = state.totalPieces

\* The page's socket opens: the coordinator's onConnect, then the state and
\* the wall_history message reach the page.
pageOpens(header) ==
    /\ ~client.open
    /\ connections = <<>>
    /\ accepted(header)
    /\ client' = useWall(onStateUpdate([client EXCEPT !.open = TRUE], state),
                          [ret'.message EXCEPT !.pieces = piecesOf(graffiti, @)])

\* The page's socket closes.
pageCloses ==
    /\ client.open
    /\ closed(1)
    /\ client' = [client EXCEPT !.open = FALSE]

\* The messages the last step broadcast, and the state it set, reach the
\* page.
pageReceives ==
    /\ client.open
    /\ ~upToDate
    /\ client' = onStateUpdate(handled(client, sent), state)
    /\ sent' = <<>>
    /\ UNCHANGED <<now, ret, connections, cursorVars, intervalSchedules, calls,
                   limiterVars, wallVars, rotVars>>

(***************************************************************************)
(* onStart: the coordinator is started again after an eviction, a deploy   *)
(* or a crash.  The tables and the schedule persist; the fields of the     *)
(* object and the handlers suspended on a call do not.                     *)
(***************************************************************************)
\* SELECT MAX(epoch) FROM wall_snapshots, ?? 0
maxEpoch(snapshots) ==
    IF snapshots = {} THEN 0
    ELSE CHOOSE e \in {row.epoch : row \in snapshots} :
            \A row \in snapshots : row.epoch <= e
\* SELECT image_data FROM wall_backgrounds ORDER BY created_at DESC LIMIT 1
latestBackground(backgrounds) ==
    IF backgrounds = <<>> THEN NULL ELSE backgrounds[Len(backgrounds)]
\* The state that onStart sets from the tables.
loadedStateEmpty(g, snapshots, backgrounds) ==
    [totalPieces |-> 0,
     backgroundImage |-> latestBackground(backgrounds),
     wallEpoch |-> maxEpoch(snapshots)]
loadedState(g, snapshots, backgrounds) ==
    [totalPieces |-> Cardinality(DOMAIN g),
     backgroundImage |-> latestBackground(backgrounds),
     wallEpoch |-> maxEpoch(snapshots)]
\* A scheduled callback that was interrupted: whether its schedule row is
\* still there, so that it runs again from its start, is the framework's
\* business; both outcomes are taken.
interrupted(pc, rerun) ==
    IF pc \in {"idle", "scheduled", "done"} THEN pc
    ELSE IF rerun THEN "scheduled" ELSE "done"
restartedRuns(runs, rerun) ==
    [r \in DOMAIN runs |->
        IF runs[r].pc \in {"idle", "scheduled", "done"} THEN runs[r]
        ELSE IF rerun THEN ScheduledRun ELSE DoneRun]
\* if (!bgRow) this.schedule(0, "rotateWall")
initialBackground(runs, backgrounds) ==
    IF backgrounds = <<>> /\ idleRuns(runs) # {}
    THEN [runs EXCEPT ![nextRun(runs)] = ScheduledRun]
    ELSE runs

\* existing.some((s) => s.callback === "rotateWall")
hasRotationNever(existing) == FALSE
hasRotation(existing) == existing > 0
\* if (!hasRotation) this.scheduleEvery(3600, "rotateWall")
registered(existing) == IF hasRotation(existing) THEN existing ELSE existing + 1

onStart(rerun, socketsSurvive) ==
    /\ state' = loadedState(graffiti, wall_snapshots, wall_backgrounds)
    /\ pendingGenerations' = 0
    /\ job' = [id \in DOMAIN job |-> interrupted(job[id], rerun)]
    /\ rot' = initialBackground(restartedRuns(rot, rerun), wall_backgrounds)
    /\ calls' = NoCalls
    /\ connections' = IF socketsSurvive THEN connections ELSE <<>>
    /\ cursorStates' = IF socketsSurvive THEN cursorStates ELSE <<>>
    /\ clientCursors' = IF socketsSurvive THEN clientCursors ELSE <<>>
    /\ client' = IF socketsSurvive THEN client ELSE [client EXCEPT !.open = FALSE]
    /\ intervalSchedules' = registered(intervalSchedules)
    /\ ret' = [op |-> "onStart", scheduledRotation |-> rot' # restartedRuns(rot, rerun)]
    /\ sent' = <<>>
    /\ UNCHANGED <<now, limiterVars, graffiti, nextId, WALL_HISTORY, wall_history_index,
                   wall_backgrounds, wall_snapshots>>

RLKeys == {GlobalWriteKey, IpWriteKey("203.0.113.7")}
NextRL ==
    \/ \E d \in TickSteps : Tick(d)
    \/ \E key \in RLKeys, limit \in 1..MaxLimit, fault \in Faults :
          CheckRateLimit(key, limit, fault)
    \/ \E key \in RLKeys, kind \in {"unparsable", "notarray"} : CorruptRecord(key, kind)

SpecRL == Init /\ [][NextRL]_vars

\* The write scope of each address, checked with its limit as contribute
\* does, with no fault; a denied caller may wait as long as it was told.
NextRetry ==
    \/ \E d \in TickSteps : Tick(d)
    \/ \E ip \in IPs : CheckRateLimit(IpWriteKey(ip), RATE_LIMIT_PER_IP_WRITE, "none")
    \/ Wait

SpecRetry == Init /\ [][NextRetry]_vars

\* The steps of every generateArt run, with the faults drawn from throws (a
\* call that throws throws AiError) and
\* the classifier's answers from responses.
GenSteps(throws, responses) ==
    \/ \E id \in DOMAIN job, selectThrows \in throws, failUpdateThrows \in throws :
          GenStart(id, selectThrows, failUpdateThrows)
    \/ \E id \in DOMAIN job, response \in responses, callThrows \in throws,
          failUpdateThrows \in throws :
          GenModeration(id, response, callThrows, AiError, failUpdateThrows)
    \/ \E id \in DOMAIN job, callThrows \in throws, failUpdateThrows \in throws :
          GenTransform(id, callThrows, AiError, failUpdateThrows)
    \/ \E id \in DOMAIN job, callThrows \in throws, updateThrows \in throws,
          failUpdateThrows \in throws :
          GenSynthesis(id, callThrows, AiError, updateThrows, failUpdateThrows)

GenNext == GenSteps(BOOLEAN, Responses)

\* The steps of every rotateWall run; a run starts when no other run is
\* between its awaits.
RotNext ==
    \/ \E r \in Runs :
          /\ \A q \in Runs : rot[q].pc \in {"idle", "scheduled", "done"}
          /\ RotStart(r)
    \/ \E r \in Runs, callThrows \in BOOLEAN : RotSynthesis(r, callThrows)
    \/ \E r \in Runs, putThrows \in BOOLEAN, insertThrows \in BOOLEAN,
          broadcastThrows \in BOOLEAN :
          RotPut(r, putThrows, insertThrows, broadcastThrows)
    \/ \E r \in Runs, deleteThrows \in BOOLEAN, broadcastThrows \in BOOLEAN :
          RotCompensate(r, deleteThrows, broadcastThrows)

\* Every handler: submissions of one address with the limiter's storage
\* working, generation runs, rotations, the hourly timer and resets.
Next ==
    \/ \E text \in Texts, style \in Styles, token \in Tokens :
          /\ nextId <= MaxPieces
          /\ Len(rate_limits[GlobalWriteKey].ts) < MaxCalls
          /\ contribute("203.0.113.7", text, style, TRUE, token, "none", "none")
    \/ GenNext
    \/ RotNext
    \/ RotTimer
    \/ \E adminKey \in {"guess", ADMIN_KEY}, scheduleThrows \in BOOLEAN :
          /\ (adminKey = ADMIN_KEY /\ ~scheduleThrows) => idleRuns(rot) # {}
          /\ adminReset(ADMIN_KEY, adminKey, scheduleThrows)

Spec == Init /\ [][Next]_vars

\* Submissions of one address, generation runs with every fault, and resets,
\* which delete the pieces under the runs; no rotation runs.
NextGen ==
    \/ \E text \in Texts, style \in Styles, token \in Tokens :
          /\ nextId <= MaxPieces
          /\ Len(rate_limits[GlobalWriteKey].ts) < MaxCalls
          /\ contribute("203.0.113.7", text, style, TRUE, token, "none", "none")
    \/ GenNext
    \/ \E adminKey \in {"guess", ADMIN_KEY}, scheduleThrows \in BOOLEAN :
          /\ (adminKey = ADMIN_KEY /\ ~scheduleThrows) => idleRuns(rot) # {}
          /\ adminReset(ADMIN_KEY, adminKey, scheduleThrows)

SpecGen == Init /\ [][NextGen]_vars

\* Submissions of two addresses and generation runs in which nothing throws,
\* with ids for more pieces than the semaphore has slots.
NextCap ==
    \/ \E ip \in IPs, text \in {TaggedText, BlankText, BlockedText},
          style \in {NULL, ShortStyle} :
          /\ nextId <= MaxCapPieces
          /\ Len(rate_limits[GlobalWriteKey].ts) < MaxCapCalls
          /\ contribute(ip, text, style, TRUE, "valid", "none", "none")
    \/ GenSteps({FALSE}, {SAFE, <<"U", "N", "S", "A", "F", "E">>})

SpecCap == Init /\ [][NextCap]_vars

\* Submissions only, at one instant, with storage faults in both checks.
NextAdmit ==
    \E ip \in IPs, text \in {TaggedText, BlankText}, token \in {"valid", "rejected"},
       f1 \in {"none", "select"}, f2 \in {"none", "write"} :
       contribute(ip, text, NULL, TRUE, token, f1, f2)

SpecAdmit == Init /\ [][NextAdmit]_vars

\* The steps of every rotateWall run, with runs that overlap.
RotSteps ==
    \/ \E r \in Runs : RotStart(r)
    \/ \E r \in Runs, callThrows \in BOOLEAN : RotSynthesis(r, callThrows)
    \/ \E r \in Runs, putThrows \in BOOLEAN, insertThrows \in BOOLEAN,
          broadcastThrows \in BOOLEAN :
          RotPut(r, putThrows, insertThrows, broadcastThrows)
    \/ \E r \in Runs, deleteThrows \in BOOLEAN, broadcastThrows \in BOOLEAN :
          RotCompensate(r, deleteThrows, broadcastThrows)

\* Submissions and generation runs in which nothing throws, rotations that
\* overlap, with every fault of the archive step, the timer and resets.
NextRotate ==
    \/ /\ nextId <= MaxRotPieces
       /\ contribute("203.0.113.7", TaggedText, NULL, TRUE, "valid", "none", "none")
    \/ GenSteps({FALSE}, {SAFE})
    \/ RotSteps
    \/ RotTimer
    \/ \E scheduleThrows \in BOOLEAN :
          /\ ~scheduleThrows => idleRuns(rot) # {}
          /\ adminReset(ADMIN_KEY, ADMIN_KEY, scheduleThrows)

SpecRotate == Init /\ [][NextRotate]_vars

\* Submissions, generation runs and rotations, one at a time, that fill the
\* tables, and resets called with no key, a wrong key and the right key, on a
\* deployment with and without ADMIN_KEY.
NextReset ==
    \/ /\ nextId <= MaxRotPieces
       /\ contribute("203.0.113.7", TaggedText, NULL, TRUE, "valid", "none", "none")
    \/ GenSteps({FALSE}, {SAFE})
    \/ \E r \in Runs :
          /\ \A q \in Runs : rot[q].pc \in {"idle", "scheduled", "done"}
          /\ RotStart(r)
    \/ \E r \in Runs : RotSynthesis(r, FALSE)
    \/ \E r \in Runs : RotPut(r, FALSE, FALSE, FALSE)
    \/ RotTimer
    \/ \E envKey \in {NULL, ADMIN_KEY}, adminKey \in {NULL, "guess", ADMIN_KEY},
          scheduleThrows \in BOOLEAN :
          /\ ~scheduleThrows => idleRuns(rot) # {}
          /\ adminReset(envKey, adminKey, scheduleThrows)

SpecReset == Init /\ [][NextReset]_vars

\* Submissions, generation runs and rotations, one at a time and with every
\* call succeeding, and restarts of the coordinator at any point.
NextRestart ==
    \/ /\ nextId <= MaxRotPieces
       /\ contribute("203.0.113.7", TaggedText, NULL, TRUE, "valid", "none", "none")
    \/ GenSteps({FALSE}, {SAFE})
    \/ \E r \in Runs :
          /\ \A q \in Runs : rot[q].pc \in {"idle", "scheduled", "done"}
          /\ RotStart(r)
    \/ \E r \in Runs : RotSynthesis(r, FALSE)
    \/ \E r \in Runs : RotPut(r, FALSE, FALSE, FALSE)
    \/ \E rerun \in BOOLEAN :
          /\ rerun => Len(wall_backgrounds) < MaxRotations
          /\ wall_backgrounds = <<>> => idleRuns(restartedRuns(rot, rerun)) # {}
          /\ onStart(rerun, FALSE)

SpecRestart == Init /\ [][NextRestart]_vars

\* Submissions, generation runs, rotations, resets and restarts.
NextCount ==
    \/ /\ nextId <= MaxRotPieces
       /\ contribute("203.0.113.7", TaggedText, NULL, TRUE, "valid", "none", "none")
    \/ GenSteps({FALSE}, {SAFE})
    \/ \E r \in Runs :
          /\ \A q \in Runs : rot[q].pc \in {"idle", "scheduled", "done"}
          /\ RotStart(r)
    \/ \E r \in Runs : RotSynthesis(r, FALSE)
    \/ \E r \in Runs : RotPut(r, FALSE, FALSE, FALSE)
    \/ \E adminKey \in {"guess", ADMIN_KEY} :
          /\ adminKey = ADMIN_KEY => idleRuns(rot) # {}
          /\ adminReset(ADMIN_KEY, adminKey, FALSE)
    \/ \E rerun \in BOOLEAN :
          /\ rerun => Len(wall_backgrounds) < MaxRotations
          /\ wall_backgrounds = <<>> => idleRuns(restartedRuns(rot, rerun)) # {}
          /\ onStart(rerun, FALSE)

SpecCount == Init /\ [][NextCount]_vars

\* The same with the retention job and the snapshot reader.
NextArchive ==
    \/ NextRotate
    \/ \E stale \in SUBSET wall_history_index : cleanupOldHistory(stale)
    \/ \E row \in calls.cleanup.stale, deleteThrows \in BOOLEAN :
          CleanupDelete(row, deleteThrows)
    \/ \E id \in SnapshotIds :
          /\ Len(rate_limits[IpReadKey("203.0.113.7")].ts) < MaxReads
          /\ getWallSnapshot("203.0.113.7", id)
    \/ \E getThrows \in BOOLEAN : GetReturn(getThrows)

SpecArchive == Init /\ [][NextArchive]_vars

\* Connections open and close; the first may come without the address header.
NextConn ==
    \/ \E header \in IF connections = <<>> THEN {"203.0.113.7", NoHeader}
                      ELSE {"203.0.113.7"} : onConnect(header)
    \/ \E i \in 1..Len(connections) : Disconnect(i)

SpecConn == Init /\ [][NextConn]_vars

\* Sessions connect, move their cursors and disconnect, and the interval
\* callback runs every 100 ms for as long as the coordinator lives.
NextCursor ==
    \/ /\ Len(connections) < MaxSessions
       /\ onConnect("203.0.113.7")
    \/ \E i \in 1..Len(connections) : Disconnect(i)
    \/ \E i \in 1..Len(connections), x \in {"0.25", "abc", "1.5"}, name \in {"", "Ann"} :
          onMessage(i, CursorMessage(x, "0.25", name))
    \/ cursorBroadcast

\* Pieces are submitted, seconds pass, and sessions connect and disconnect.
NextJoin ==
    \/ /\ nextId <= MaxPlaced
       /\ contribute("203.0.113.7", TaggedText, NULL, TRUE, "valid", "none", "none")
    \/ /\ now < 1000 * MaxSeconds
       /\ Tick(1000)
    \/ /\ Len(connections) < MaxSessions
       /\ onConnect("203.0.113.7")
    \/ \E i \in 1..Len(connections) : Disconnect(i)

SpecJoin == Init /\ [][NextJoin]_vars

\* One page whose socket opens and closes, while pieces are submitted, each
\* in a second of its own, and generated, and the wall rotates, with every
\* call succeeding; the coordinator goes on when the page has got what was
\* sent to it.
NextPage ==
    \/ /\ upToDate
       /\ now < 1000 * MaxSeconds
       /\ Tick(1000)
    \/ /\ upToDate
       /\ nextId <= MaxPlaced
       /\ \A id \in DOMAIN graffiti : graffiti[id].created_at < now \div 1000
       /\ contribute("203.0.113.7", TaggedText, NULL, TRUE, "valid", "none", "none")
    \/ upToDate /\ GenSteps({FALSE}, {SAFE})
    \/ \E r \in Runs :
          /\ upToDate
          /\ \A q \in Runs : rot[q].pc \in {"idle", "scheduled", "done"}
          /\ RotStart(r)
    \/ \E r \in Runs : upToDate /\ RotSynthesis(r, FALSE)
    \/ \E r \in Runs : upToDate /\ RotPut(r, FALSE, FALSE, FALSE)
    \/ upToDate /\ pageOpens("203.0.113.7")
    \/ upToDate /\ pageCloses
    \/ pageReceives

SpecPage == Init /\ [][NextPage]_vars

\* Sessions of a wall in use send cursor messages, well-formed or not, and
\* structured calls.
CursorMessages ==
    {CursorMessage(x, y, name) :
        x \in {"0.25", "-1"}, y \in {"abc", "1.5"}, name \in {"", "LongName (60 characters)"}}
NextMessage ==
    \/ /\ nextId <= MaxRotPieces
       /\ contribute("203.0.113.7", TaggedText, NULL, TRUE, "valid", "none", "none")
    \/ /\ Len(connections) < MaxSessions
       /\ onConnect("203.0.113.7")
    \/ \E i \in 1..Len(connections), message \in CursorMessages \cup {RpcMessage} :
          onMessage(i, message)

SpecMessage == Init /\ [][NextMessage]_vars

SpecCursor == Init /\ [][NextCursor]_vars /\ WF_vars(cursorBroadcast)

\* Whether TURNSTILE_SECRET is set, and the token sent.
Deployments ==
    {[secretSet |-> TRUE, token |-> "valid"], [secretSet |-> TRUE, token |-> "missing"],
     [secretSet |-> TRUE, token |-> "rejected"], [secretSet |-> FALSE, token |-> "missing"]}

\* Submissions only, of two addresses, with and without the verification
\* secret, with every kind of text and style and the limiter's storage
\* working, while global:write holds fewer than MaxSubmitCalls timestamps.
NextSubmit ==
    \E ip \in IPs, text \in {TaggedText, BlankText, ScriptText}, style \in Styles,
       auth \in Deployments :
       /\ Len(rate_limits[GlobalWriteKey].ts) < MaxSubmitCalls
       /\ contribute(ip, text, style, auth.secretSet, auth.token, "none", "none")

SpecSubmit == Init /\ [][NextSubmit]_vars

\* Submissions whose text or style hint is or is not on the blocklist, and
\* their generation runs with every call succeeding.
NextFilter ==
    \/ \E text \in {TaggedText, BlockedText}, style \in {NULL, StencilStyle, BlockedText} :
          /\ nextId <= MaxPieces
          /\ contribute("203.0.113.7", text, style, TRUE, "valid", "none", "none")
    \/ GenSteps({FALSE}, {SAFE, NoResponse})

SpecFilter == Init /\ [][NextFilter]_vars

\* Submissions and their generation runs, in which every call and every
\* write may throw, a call an Error with a short or a long message or a value
\* that is no Error.
NextFail ==
    \/ /\ nextId <= MaxPieces
       /\ contribute("203.0.113.7", TaggedText, NULL, TRUE, "valid", "none", "none")
    \/ \E id \in DOMAIN job, selectThrows \in BOOLEAN, failUpdateThrows \in BOOLEAN :
          GenStart(id, selectThrows, failUpdateThrows)
    \/ \E id \in DOMAIN job, callThrows \in BOOLEAN, err \in Errors,
          failUpdateThrows \in BOOLEAN :
          GenModeration(id, SAFE, callThrows, err, failUpdateThrows)
    \/ \E id \in DOMAIN job, callThrows \in BOOLEAN, err \in Errors,
          failUpdateThrows \in BOOLEAN :
          GenTransform(id, callThrows, err, failUpdateThrows)
    \/ \E id \in DOMAIN job, callThrows \in BOOLEAN, err \in Errors,
          updateThrows \in BOOLEAN, failUpdateThrows \in BOOLEAN :
          GenSynthesis(id, callThrows, err, updateThrows, failUpdateThrows)

SpecFail == Init /\ [][NextFail]_vars

\* Submissions with coordinates left out, not numeric, negative, on an edge,
\* inside and above 1.
XCoordinates == {Missing, NotANumber, Num(-250), Num(0), Num(250), Num(One), Num(1750)}
YCoordinates == {Missing, Num(-1), Num(0), Num(One), Num(One + 1)}
NextPlace ==
    \E posX \in XCoordinates, posY \in YCoordinates :
       /\ nextId <= MaxPlaced
       /\ contributeAt("203.0.113.7", TaggedText, NULL, TRUE, "valid", posX, posY,
                       "none", "none")

SpecPlace == Init /\ [][NextPlace]_vars

(***************************************************************************)
(* Claims about the rate limiter, checked under SpecRL.                    *)
(***************************************************************************)
IsCheck(r) == r.op = "checkRateLimit"

\* C5: on a key that no storage fault or corruption has touched, a check made
\* when limit or more checks were admitted during the last 60 s is denied with
\* a retry-after of at least 1 s, and a check made when fewer were (none, once
\* the window has elapsed since the admits) is admitted.
C5_WindowRoundTrip ==
    [][(IsCheck(ret') /\ ret'.threw = "nothing" /\ clean[ret'.key]) =>
          LET n == Len(InWindow(admitLog[ret'.key], now))
          IN  /\ n >= ret'.limit => (ret'.res = "deny" /\ ret'.retryIn >= 1)
              /\ n < ret'.limit => ret'.res = "admit"]_vars

\* C5 witness: the 4th check within one window under the per-identity limit
\* of 3 has just been denied, with 1 s to wait.
C5_FourthDenied ==
    /\ IsCheck(ret) /\ ret.res = "deny" /\ ret.threw = "nothing"
    /\ ret.limit = RATE_LIMIT_PER_IP_WRITE
    /\ clean[ret.key] /\ Len(admitLog[ret.key]) = RATE_LIMIT_PER_IP_WRITE
    /\ ret.retryIn = 1

\* C6: a check that finds an unparsable payload never denies and never
\* raises; when its own statements succeed it discards the row, counts no
\* old timestamp and leaves a well-formed row holding only the new timestamp.
C6_CorruptionRecovery ==
    [][(IsCheck(ret') /\ ret'.had = "unparsable") =>
          /\ ret'.res = "admit"
          /\ ret'.threw # "storage" => rate_limits'[ret'.key] = ArrayRow(<<now>>)]_vars

\* C6 witness: a check has just healed an unparsable row.
C6_Healed ==
    /\ IsCheck(ret) /\ ret.had = "unparsable" /\ ret.threw = "nothing"
    /\ ret.res = "admit" /\ rate_limits[ret.key] = ArrayRow(<<now>>)

\* C7: a check in which a storage statement throws returns admit; no check
\* ever ends in an exception.
C7_FailOpen ==
    [][IsCheck(ret') =>
          /\ ret'.res \in {"admit", "deny"}
          /\ ret'.threw = "storage" => ret'.res = "admit"]_vars

\* C7 witness: the write-back of a check that was over the limit threw, and
\* the check admitted.
C7_DenyTurnedAdmit ==
    /\ IsCheck(ret) /\ ret.threw = "storage" /\ ret.res = "admit" /\ ret.had = "array"
    /\ Len(InWindow(rate_limits[ret.key].ts, now)) >= ret.limit

(***************************************************************************)
(* The generation pipeline.                                                *)
(***************************************************************************)
\* The admitted generation jobs whose run has not returned.
Unfinished(jobs) == {id \in DOMAIN jobs : jobs[id] # "done"}
\* The jobs whose run returns in this step.
Exits == {id \in DOMAIN job : job[id] # "done" /\ job'[id] = "done"}

\* C1: a row is inserted with status generating, and in every step of every
\* handler a row that stays keeps its status or goes from generating to
\* complete or to failed; a terminal status never changes.
C1_StatusMonotone ==
    [][\A id \in DOMAIN graffiti' :
          IF id \in DOMAIN graffiti
          THEN \/ graffiti'[id].status = graffiti[id].status
               \/ /\ graffiti[id].status = "generating"
                  /\ graffiti'[id].status \in {"complete", "failed"}
          ELSE graffiti'[id].status = "generating"]_vars

\* One piece is complete and another failed while a rotation is suspended on
\* its cold-storage write.
C1_TerminalDuringRotation ==
    /\ \E a \in DOMAIN graffiti : graffiti[a].status = "complete"
    /\ \E b \in DOMAIN graffiti : graffiti[b].status = "failed"
    /\ \E r \in Runs : rot[r].pc = "put"

\* C2, as stated: once the run of a piece has returned, the piece, if it still
\* exists, is complete or failed.
C2_TerminalAfterRun ==
    \A id \in DOMAIN job :
        (job[id] = "done" /\ id \in DOMAIN graffiti)
            => graffiti[id].status \in {"complete", "failed"}

\* C3: a contribute call that gets past verification, rate limiting and text
\* validation is rejected as Overloaded exactly when three admitted jobs have
\* not finished, and never more than three admitted jobs are unfinished.
C3_ConcurrencyCap ==
    [][/\ Cardinality(Unfinished(job')) <= MAX_CONCURRENT_GENERATIONS
       /\ (ret'.op = "contribute" /\ ret'.res = "Overloaded")
             => Cardinality(Unfinished(job)) = MAX_CONCURRENT_GENERATIONS
       /\ (ret'.op = "contribute" /\ ret'.res \in {"ok", "StyleTooShort"})
             => Cardinality(Unfinished(job)) < MAX_CONCURRENT_GENERATIONS]_vars

\* A call was rejected as Overloaded while three jobs, none of them finished,
\* held the slots.
C3_FourthOverloaded ==
    /\ ret.op = "contribute"
    /\ ret.res = "Overloaded"
    /\ Cardinality(Unfinished(job)) = MAX_CONCURRENT_GENERATIONS
    /\ \A id \in DOMAIN job : job[id] # "done"

\* C4: the semaphore goes down only in a step in which a run returns, and a
\* returning run, whatever its exit path, takes it down by exactly one.
C4_ReleasedOncePerExit ==
    [][/\ Exits # {} => /\ Cardinality(Exits) = 1
                         /\ pendingGenerations >= 1
                         /\ pendingGenerations' = pendingGenerations - 1
       /\ pendingGenerations' < pendingGenerations => Exits # {}]_vars

\* A run has returned for a piece that had been deleted under it, another for
\* a piece it marked failed, and no slot is held any more.
C4_AllReleased ==
    /\ \E id \in DOMAIN job : job[id] = "done" /\ id \notin DOMAIN graffiti
    /\ \E id \in DOMAIN graffiti : job[id] = "done" /\ graffiti[id].status = "failed"
    /\ \A id \in DOMAIN job : job[id] = "done"
    /\ pendingGenerations = 0

\* C8: a contribute call rejected by the global write scope leaves the
\* record of the caller's identity scope, and of every other identity, as it
\* was.
C8_GlobalDenyLeavesIdentity ==
    [][(ret'.op = "contribute" /\ ret'.res = "Busy")
          => \A ip \in IPs :
                 rate_limits'[IpWriteKey(ip)] = rate_limits[IpWriteKey(ip)]]_vars

\* A call was rejected by the global scope while the caller's own record
\* still had a free slot.
C8_BusyWithFreeIdentitySlot ==
    /\ ret.op = "contribute"
    /\ ret.res = "Busy"
    /\ Len(rate_limits[IpWriteKey(ret.ip)].ts) < RATE_LIMIT_PER_IP_WRITE

C10_ArchiveAtomic ==
    [][/\ \A row \in wall_history_index' : row.r2_key \in DOMAIN WALL_HISTORY'
       /\ \A r \in Runs :
             (rot[r].pc = "compensate" /\ rot'[r].pc = "done")
                 => r2KeyOf(rot[r].snapshot.id) \notin DOMAIN WALL_HISTORY']_vars

\* No rotateWall run is suspended on its compensating delete and no
\* cleanupOldHistory run is between its deletes.
ArchiveAtRest ==
    /\ \A r \in Runs : rot[r].pc # "compensate"
    /\ calls.cleanup.pc = "idle"

\* C11, as stated: whenever no handler is in the middle of its archive step,
\* every index row names an object that is in cold storage and every object
\* in cold storage is named by an index row.
C11_IndexIffObject ==
    ArchiveAtRest =>
        /\ \A row \in wall_history_index : row.r2_key \in DOMAIN WALL_HISTORY
        /\ \A key \in DOMAIN WALL_HISTORY :
               \E row \in wall_history_index : row.r2_key = key

\* The wall_rotated messages among msgs.
Rotations(msgs) == SelectSeq(msgs, LAMBDA msg : msg.type = "wall_rotated")

\* C12: a rotateWall run whose background synthesis call fails has changed
\* nothing when it returns: neither the step that starts it nor the step in
\* which the call fails deletes a piece, changes totalPieces, the background
\* or the epoch, writes to cold storage, to the index, to wall_backgrounds or
\* to wall_snapshots, or broadcasts anything; and a run that does clear the
\* canvas sets a background it has just synthesised.
C12_SynthesisFailureShortCircuits ==
    [][\A r \in Runs :
          /\ (rot[r].pc = "scheduled" /\ rot'[r].pc # "scheduled")
                => /\ rot'[r].pc = "synthesis"
                   /\ UNCHANGED <<graffiti, state, WALL_HISTORY, wall_history_index,
                                  wall_backgrounds, wall_snapshots>>
                   /\ sent' = <<>>
          /\ (ret'.op = "rotateWall" /\ ret'.run = r /\ ret'.res = "failed")
                => /\ rot[r].pc = "synthesis"
                   /\ UNCHANGED <<graffiti, state, WALL_HISTORY, wall_history_index,
                                  wall_backgrounds, wall_snapshots>>
                   /\ sent' = <<>>
          /\ (ret'.op = "rotateWall" /\ ret'.run = r /\ ret'.res = "rotated")
                => /\ state'.backgroundImage = <<"bg", r>>
                   /\ Rotations(sent') = <<WallRotated(<<"bg", r>>, state'.wallEpoch)>>]_vars

\* The synthesis call of a rotation has just failed on a canvas that holds a
\* complete piece, after an earlier rotation had set epoch 1.
C12_FailedOnLiveCanvas ==
    /\ ret.op = "rotateWall"
    /\ ret.res = "failed"
    /\ completedPieces(graffiti) # {}
    /\ state.totalPieces >= 1
    /\ state.wallEpoch = 1

\* C13: a rotateWall run that has reached its archive step always goes on to
\* clear the canvas, whatever fails in that step: the step in which
\* WALL_HISTORY.put returns or throws either awaits the compensating delete,
\* changing neither the pieces nor the canvas state, or ends the run; the step
\* in which the compensating delete returns or throws ends it; and the step
\* that ends it leaves no piece, sets the run's background and epoch and a
\* count of 0, and broadcasts wall_rotated last.
C13_ArchivalNeverBlocks ==
    [][\A r \in Runs :
          (rot[r].pc \in {"put", "compensate"} /\ rot'[r] # rot[r]) =>
              \/ /\ rot[r].pc = "put"
                 /\ rot'[r].pc = "compensate"
                 /\ UNCHANGED <<graffiti, state>>
              \/ /\ rot'[r].pc = "done"
                 /\ ret' = [op |-> "rotateWall", run |-> r, res |-> "rotated",
                            archive |-> ret'.archive]
                 /\ graffiti' = EmptyTable
                 /\ state' = [totalPieces |-> 0, backgroundImage |-> rot[r].bgImage,
                              wallEpoch |-> rot[r].epoch]
                 /\ state'.backgroundImage = <<"bg", r>>
                 /\ Len(sent') >= 1
                 /\ sent'[Len(sent')] = WallRotated(<<"bg", r>>, rot[r].epoch)]_vars

\* A rotation has ended after its index insert threw, its compensating delete
\* threw (the object is still stored) and its history broadcast threw (only
\* wall_rotated was sent): the canvas is cleared and the epoch is 1.
C13_RotatedAfterThreeFailures ==
    /\ ret.op = "rotateWall"
    /\ ret.res = "rotated"
    /\ ret.archive = "indexFailed"
    /\ r2KeyOf(ret.run) \in DOMAIN WALL_HISTORY
    /\ sent = <<WallRotated(<<"bg", ret.run>>, 1)>>
    /\ graffiti = EmptyTable
    /\ state = [totalPieces |-> 0, backgroundImage |-> <<"bg", ret.run>>, wallEpoch |-> 1]

\* The synthesis call of run r returns in this step.
Synthesised(r) ==
    /\ rot[r].pc = "synthesis"
    /\ rot'[r] # rot[r]
    /\ ~(ret'.op = "rotateWall" /\ ret'.res = "failed")

CallTimeErrors ==
    {"Unverified", "Busy", "RateLimited", "Invalid", "Overloaded", "StyleTooShort"}
\* The two kinds of ValidationError.
ValidationErrors == {"Invalid", "StyleTooShort"}

\* C15: a contribute call that fails with a call-time error has inserted no
\* row, left totalPieces, the background, the epoch and the semaphore as they
\* were, scheduled no generation job and broadcast nothing; a call that
\* succeeds has inserted one generating row, counted it, taken one slot,
\* scheduled its job and broadcast piece_added.
C15_RejectionLeavesWall ==
    [][ret'.op = "contribute" =>
          IF ret'.res = "ok"
          THEN /\ DOMAIN graffiti' = DOMAIN graffiti \cup {ret'.id}
               /\ ret'.id \notin DOMAIN graffiti
               /\ state'.totalPieces = state.totalPieces + 1
               /\ pendingGenerations' = pendingGenerations + 1
               /\ sent' = <<PieceAdded(ret'.id)>>
          ELSE /\ ret'.res \in CallTimeErrors
               /\ UNCHANGED <<graffiti, state, pendingGenerations, job, nextId>>
               /\ sent' = <<>>]_vars

\* A call has just been rejected as Overloaded: three rows, three slots and a
\* count of 3, as before the call.
C15_OverloadedInsertedNothing ==
    /\ ret.op = "contribute"
    /\ ret.res = "Overloaded"
    /\ DOMAIN graffiti = 1..MAX_CONCURRENT_GENERATIONS
    /\ pendingGenerations = MAX_CONCURRENT_GENERATIONS
    /\ state.totalPieces = MAX_CONCURRENT_GENERATIONS
    /\ nextId = MAX_CONCURRENT_GENERATIONS + 1

\* The record of key after one more admitted check at the present time.
Charged(key) ==
    ArrayRow(Append(pruneWindow(rate_limits[key].ts, now - RATE_LIMIT_WINDOW_MS), now))

\* C16, as stated: a call rejected with a ValidationError leaves the pieces,
\* the canvas state, the semaphore and the rate-limit records as they were.
C16_ValidationChangesNothing ==
    [][(ret'.op = "contribute" /\ ret'.res \in ValidationErrors)
          => UNCHANGED <<graffiti, state, pendingGenerations, rate_limits>>]_vars

\* C16, amended: a call rejected with a ValidationError leaves the pieces, the
\* canvas state, the semaphore and the jobs as they were and broadcasts
\* nothing, but it has been admitted by both write scopes first: the global
\* record and the record of the caller's address each hold one more timestamp,
\* and the records of the other addresses are as they were.
C16_ValidationChargesLimits ==
    [][(ret'.op = "contribute" /\ ret'.res \in ValidationErrors) =>
          /\ UNCHANGED <<graffiti, state, pendingGenerations, job, nextId>>
          /\ sent' = <<>>
          /\ rate_limits'[GlobalWriteKey] = Charged(GlobalWriteKey)
          /\ rate_limits'[IpWriteKey(ret'.ip)] = Charged(IpWriteKey(ret'.ip))
          /\ \A key \in Keys \ {GlobalWriteKey, IpWriteKey(ret'.ip)} :
                 rate_limits'[key] = rate_limits[key]]_vars

\* An address whose only three calls were rejected with a ValidationError has
\* used up its three write slots, and no piece exists.
C16_SlotsSpentOnInvalidInput ==
    /\ ret.op = "contribute"
    /\ ret.res \in ValidationErrors
    /\ Len(rate_limits[IpWriteKey(ret.ip)].ts) = RATE_LIMIT_PER_IP_WRITE
    /\ Len(rate_limits[GlobalWriteKey].ts) = RATE_LIMIT_PER_IP_WRITE
    /\ graffiti = EmptyTable
    /\ pendingGenerations = 0

\* C17, as stated: a call whose token is missing or is not accepted by the
\* verification service fails as Unverified, and a call that fails as
\* Unverified has left the rate-limit records and the pieces as they were.
C17_UnverifiedFirst ==
    [][ret'.op = "contribute" =>
          /\ ret'.token \in {"missing", "rejected"} => ret'.res = "Unverified"
          /\ ret'.res = "Unverified"
                => UNCHANGED <<rate_limits, graffiti, state, pendingGenerations, job>>]_vars

\* C17, amended: when the deployment has the verification secret, a call
\* whose token is missing or is not accepted fails as Unverified; a call fails
\* as Unverified only then, and has left the rate-limit records, the pieces,
\* the canvas state, the semaphore and the jobs as they were.  Without the
\* secret no token is asked for and the call goes on to the rate limiter.
C17_UnverifiedFirstWhenConfigured ==
    [][ret'.op = "contribute" =>
          /\ (ret'.secretSet /\ ret'.token \in {"missing", "rejected"})
                => ret'.res = "Unverified"
          /\ ret'.res = "Unverified"
                => /\ ret'.secretSet
                   /\ ret'.token \in {"missing", "rejected"}
                   /\ UNCHANGED <<rate_limits, graffiti, state, pendingGenerations, job>>
                   /\ sent' = <<>>
          /\ ~ret'.secretSet
                => rate_limits'[GlobalWriteKey] = Charged(GlobalWriteKey)]_vars

\* A call with a token the service did not accept has just failed as
\* Unverified; its address has spent no slot, while another address has.
C17_UnverifiedSpentNoSlot ==
    /\ ret.op = "contribute"
    /\ ret.res = "Unverified"
    /\ ret.token = "rejected"
    /\ rate_limits[IpWriteKey(ret.ip)] = NoRow
    /\ Len(rate_limits[GlobalWriteKey].ts) = 1
    /\ graffiti # EmptyTable

(***************************************************************************)
(* Generation is detached from the submitting call.                        *)
(***************************************************************************)
\* The pieces whose stored status differs before and after the step.
StatusChanged ==
    {id \in DOMAIN graffiti \cap DOMAIN graffiti' :
        graffiti'[id].status # graffiti[id].status}
\* The ids this step broadcasts a piece_updated for.
Updated(msgs) == {msgs[i].id : i \in {j \in DOMAIN msgs : msgs[j].type = "piece_updated"}}

\* C18: a contribute call that passes admission returns the new id with the
\* piece's run only scheduled (no moderation, transform or synthesis call has
\* been started for it), the piece still generating, and without changing any
\* other piece or broadcasting a piece_updated; whenever a piece's status
\* later changes, the step is one of its generateArt run, not a call's
\* return, and it broadcasts piece_updated with the new status.
C18_ReturnsBeforeGeneration ==
    [][/\ (ret'.op = "contribute" /\ ret'.res = "ok")
            => /\ ret'.id \notin DOMAIN job
               /\ job'[ret'.id] = "scheduled"
               /\ graffiti'[ret'.id].status = "generating"
               /\ \A id \in DOMAIN job : job'[id] = job[id]
       /\ ret'.op = "contribute" => (StatusChanged = {} /\ Updated(sent') = {})
       /\ \A id \in StatusChanged :
             /\ job[id] \in {"scheduled", "moderation", "transform", "synthesis"}
             /\ job'[id] = "done"
             /\ graffiti[id].status = "generating"
             /\ sent' = <<PieceUpdated(id, graffiti'[id].status)>>]_vars

\* The caller of the last call holds the id of a piece whose run has not
\* started, while the outcome of an earlier piece has been stored.
C18_IdBeforeRunStarted ==
    /\ ret.op = "contribute"
    /\ ret.res = "ok"
    /\ job[ret.id] = "scheduled"
    /\ graffiti[ret.id].status = "generating"
    /\ \E id \in DOMAIN graffiti : graffiti[id].status = "complete"

(***************************************************************************)
(* Runs whose piece was deleted under them.                                *)
(***************************************************************************)
\* The runs that take a step here although their piece is gone.
Orphaned == {id \in DOMAIN job : job'[id] # job[id] /\ id \notin DOMAIN graffiti}

\* C19: a step of a generateArt run whose piece has been deleted (by
\* rotateWall or adminReset) writes no row, so the piece is not re-created,
\* and broadcasts nothing; the run goes on to its next call or returns, and
\* when it returns, whether its calls succeeded or threw, it releases its
\* semaphore slot.
C19_OrphanedRunExitsQuietly ==
    [][\A id \in Orphaned :
          /\ graffiti' = graffiti
          /\ sent' = <<>>
          /\ job'[id] \in {"moderation", "transform", "synthesis", "done"}
          /\ IF job'[id] = "done"
             THEN pendingGenerations' = IF pendingGenerations > 0
                                        THEN pendingGenerations - 1 ELSE 0
             ELSE pendingGenerations' = pendingGenerations]_vars

\* A rotation has cleared the canvas and no reset came after it; the runs of
\* both pieces have returned, the last of them just now without a broadcast,
\* no row exists and the semaphore is free.
C19_OrphansReturned ==
    /\ DOMAIN job = 1..2
    /\ \A id \in DOMAIN job : job[id] = "done"
    /\ graffiti = EmptyTable
    /\ pendingGenerations = 0
    /\ state.wallEpoch = 1
    /\ \A r \in Runs : rot[r].pc \in {"idle", "done"}
    /\ ret.op = "generateArt"
    /\ sent = <<>>

(***************************************************************************)
(* The connection cap.                                                     *)
(***************************************************************************)
\* C20: onConnect admits the new connection exactly when the count of the
\* live connection set, taken when it decides, is below MAX_CONNECTIONS;
\* an admitted connection gets its address as identity and the wall_history
\* snapshot and joins the sessions; otherwise the connection is closed with
\* code 1013 "Too many connections", gets no identity and no snapshot, and the
\* sessions are as before.  The admitted sessions never number more than
\* MAX_CONNECTIONS, and the connect that follows a disconnect is admitted.
C20_ConnectionCap ==
    [][/\ ret'.op = "onConnect" =>
            IF getConnectionCount(accept(connections)) < MAX_CONNECTIONS
            THEN /\ ret'.res = "admitted"
                 /\ ret'.ip # NULL
                 /\ \E pieces \in selected(graffiti) :
                        ret'.message = WallHistory(reverse(pieces))
                 /\ connections' = Append(connections, [ip |-> ret'.ip])
            ELSE /\ ret'.res = "closed"
                 /\ ret'.code = 1013
                 /\ ret'.reason = "Too many connections"
                 /\ ret'.ip = NULL
                 /\ ret'.message = NULL
                 /\ connections' = connections
       /\ Len(connections') <= MAX_CONNECTIONS
       /\ \A i \in 1..Len(connections') : connections'[i].ip # NULL
       /\ (ret.op = "onClose" /\ ret'.op = "onConnect") => ret'.res = "admitted"
       /\ ret'.op = "onClose" => Len(connections') = Len(connections) - 1]_vars

\* A connection has just been closed as one too many: the sessions fill the
\* wall up to the cap, the newcomer included in the count.
C20_ClosedAtCap ==
    /\ ret.op = "onConnect"
    /\ ret.res = "closed"
    /\ ret.code = 1013
    /\ getConnectionCount(accept(connections)) = MAX_CONNECTIONS

(***************************************************************************)
(* What a rotation archives and announces.                                 *)
(***************************************************************************)
\* C28: a rotation whose cold-storage write and index insert succeeded has
\* in its stored snapshot every piece that is complete with an image when the
\* canvas is cleared.
C28_ArchivesEveryCompletedPiece ==
    [][(ret'.op = "rotateWall" /\ ret'.res = "rotated" /\ ret'.archive = "archived")
          => completedPieces(graffiti)
                \subseteq WALL_HISTORY'[r2KeyOf(rot[ret'.run].snapshot.id)].pieces]_vars

\* C30: wall_history_updated is broadcast only by a rotation that wrote its
\* snapshot to cold storage and inserted its index row.
C30_AnnouncedOnlyIfArchived ==
    [][(\E i \in DOMAIN sent' : sent'[i] = WallHistoryUpdated)
          => /\ ret'.op = "rotateWall"
             /\ ret'.archive = "archived"
             /\ \E row \in wall_history_index' \ wall_history_index :
                    row.r2_key \in DOMAIN WALL_HISTORY']_vars

(***************************************************************************)
(* The order of the events of one piece.                                   *)
(***************************************************************************)
\* The positions of msgs that hold a message of type type about piece id.
About(msgs, type, id) ==
    {i \in DOMAIN msgs : msgs[i].type = type /\ msgs[i].id = id}
\* The ids msgs holds a message of type type about.
Named(msgs, type) == {msgs[i].id : i \in {j \in DOMAIN msgs : msgs[j].type = type}}

\* C21: piece_added is broadcast for an id exactly in the step that inserts
\* it, once, with the piece generating, and ids are not reused; piece_updated
\* is broadcast for an id only in the step in which that piece's run returns,
\* once, with status complete or failed, so after its piece_added; a run that
\* has returned never runs again, so no second piece_updated follows.
C21_EventsOrderedPerPiece ==
    [][/\ \A id \in Named(sent', "piece_added") :
             /\ id \notin DOMAIN job
             /\ id \notin DOMAIN graffiti
             /\ id = nextId /\ nextId' > nextId
             /\ graffiti'[id].status = "generating"
             /\ Cardinality(About(sent', "piece_added", id)) = 1
             /\ Named(sent', "piece_updated") = {}
       /\ \A id \in DOMAIN graffiti' \ DOMAIN graffiti :
             Cardinality(About(sent', "piece_added", id)) = 1
       /\ \A id \in Named(sent', "piece_updated") :
             /\ id \in DOMAIN job
             /\ job[id] # "done"
             /\ job'[id] = "done"
             /\ Cardinality(About(sent', "piece_updated", id)) = 1
             /\ \A i \in About(sent', "piece_updated", id) :
                   /\ sent'[i].status \in {"complete", "failed"}
                   /\ sent'[i].status = graffiti'[id].status
       /\ \A id \in DOMAIN job :
             /\ id \in DOMAIN job'
             /\ id < nextId
             /\ job[id] = "done" => job'[id] = "done"]_vars

\* The second piece's run has just completed and broadcast its one
\* piece_updated; the first piece's run returned before it, as failed.
C21_BothPiecesUpdated ==
    /\ ret.op = "generateArt"
    /\ ret.exit = "complete"
    /\ ret.id = 2
    /\ sent = <<PieceUpdated(2, "complete")>>
    /\ job[1] = "done"
    /\ 1 \in DOMAIN graffiti
    /\ graffiti[1].status = "failed"

(***************************************************************************)
(* The local pre-filter.                                                   *)
(***************************************************************************)
\* The piece's text or its style hint matches the blocklist.
Blocklisted(row) ==
    PROFANITY_RE(row.original_text) \/ (row.style # NULL /\ PROFANITY_RE(row.style))

\* C27: when the run of a piece whose text or style hint matches the
\* blocklist starts, it returns in the same step, before any external call:
\* the piece is failed with "Content flagged by moderation", piece_updated is
\* broadcast and the slot released; such a piece's run is never waiting on the
\* moderation, transform or synthesis call.  A piece that does not match goes
\* on to the moderation call.
C27_PrefilterMakesNoCall ==
    [][/\ \A id \in DOMAIN job :
             (job[id] = "scheduled" /\ job'[id] # "scheduled") =>
                IF Blocklisted(graffiti[id])
                THEN /\ job'[id] = "done"
                     /\ ret' = [op |-> "generateArt", id |-> id, exit |-> "prefilter",
                                told |-> TRUE]
                     /\ graffiti'[id].status = "failed"
                     /\ graffiti'[id].error_message = "Content flagged by moderation"
                     /\ graffiti'[id].image_data = NULL
                     /\ sent' = <<PieceUpdated(id, "failed")>>
                     /\ pendingGenerations' = pendingGenerations - 1
                ELSE /\ job'[id] = "moderation"
                     /\ graffiti' = graffiti
       /\ \A id \in DOMAIN job' :
             Blocklisted(graffiti'[id]) => job'[id] \in {"scheduled", "done"}]_vars

\* A piece with harmless text and a style hint on the blocklist has been
\* failed by the pre-filter while a piece with no such match waits on its
\* synthesis call.
C27_StyleHintBlocked ==
    /\ ret.op = "generateArt"
    /\ ret.exit = "prefilter"
    /\ ~containsProfanity(graffiti[ret.id].original_text)
    /\ containsProfanity(graffiti[ret.id].style)
    /\ graffiti[ret.id].status = "failed"
    /\ \E id \in DOMAIN job : job[id] = "synthesis"

(***************************************************************************)
(* Where a piece is placed.                                                *)
(***************************************************************************)
\* What is stored for coordinate pos, as C23 states it.
Stored(pos, stored) ==
    /\ stored \in 0..One
    /\ pos.type = "undefined" => stored = Half
    /\ (pos.type = "number" /\ pos.v < 0) => stored = 0
    /\ (pos.type = "number" /\ pos.v > One) => stored = One
    /\ (pos.type = "number" /\ pos.v > 0 /\ pos.v <= One) => stored = pos.v

\* C23: whatever posX and posY a successful contribute call is given, the
\* pos_x and pos_y it stores lie in [0,1]; a coordinate left out is stored as
\* 0.5, one below 0 as 0, one above 1 as 1 (and one in (0,1] as it is).
C23_CoordinatesClamped ==
    [][(ret'.op = "contribute" /\ ret'.res = "ok")
          => /\ Stored(ret'.posX, graffiti'[ret'.id].pos_x)
             /\ Stored(ret'.posY, graffiti'[ret'.id].pos_y)]_vars

\* A piece submitted left of the canvas and without posY is stored at
\* (0, 0.5), after one submitted beyond the right and the lower edge, stored
\* at (1, 1).
C23_ClampedAndCentred ==
    /\ ret.op = "contribute"
    /\ ret.res = "ok"
    /\ ret.id = 2
    /\ ret.posX = Num(-250) /\ ret.posY = Missing
    /\ graffiti[2].pos_x = 0 /\ graffiti[2].pos_y = Half
    /\ graffiti[1].pos_x = One /\ graffiti[1].pos_y = One

\* C24: for every posX and posY in [0,1], edges included, a successful
\* contribute call stores pos_x = posX and pos_y = posY.
C24_PlacedWhereClicked ==
    [][(/\ ret'.op = "contribute" /\ ret'.res = "ok"
        /\ ret'.posX.type = "number" /\ ret'.posX.v \in 0..One
        /\ ret'.posY.type = "number" /\ ret'.posY.v \in 0..One)
          => /\ graffiti'[ret'.id].pos_x = ret'.posX.v
             /\ graffiti'[ret'.id].pos_y = ret'.posY.v]_vars

(***************************************************************************)
(* adminReset.                                                             *)
(***************************************************************************)
\* C25: adminReset called with no key or a wrong key (or on a deployment
\* that has no key) fails as Unauthorized and leaves every table, the canvas
\* state, the schedule and the cold storage as they were and broadcasts
\* nothing; called with the right key it empties graffiti,
\* wall_history_index, wall_snapshots, wall_backgrounds and rate_limits, sets
\* the canvas state to count 0, no background, epoch 0, and returns the row
\* counts of the five tables as they were before the call and whether it
\* scheduled a rotation, which it did exactly when it says so.
C25_ResetAllOrNothing ==
    [][ret'.op = "adminReset" =>
          IF ret'.envKey = NULL \/ ret'.adminKey # ret'.envKey
          THEN /\ ret'.res = "Unauthorized"
               /\ UNCHANGED <<graffiti, wall_history_index, wall_snapshots,
                              wall_backgrounds, rate_limits, state, rot, job,
                              pendingGenerations, WALL_HISTORY>>
               /\ sent' = <<>>
          ELSE /\ ret'.res = "ok"
               /\ graffiti' = EmptyTable
               /\ wall_history_index' = {}
               /\ wall_snapshots' = {}
               /\ wall_backgrounds' = <<>>
               /\ \A k \in Keys : rate_limits'[k] = NoRow
               /\ state' = [totalPieces |-> 0, backgroundImage |-> NULL, wallEpoch |-> 0]
               /\ ret'.deleted.graffiti = Cardinality(DOMAIN graffiti)
               /\ ret'.deleted.wall_history_index = Cardinality(wall_history_index)
               /\ ret'.deleted.wall_snapshots = Cardinality(wall_snapshots)
               /\ ret'.deleted.wall_backgrounds = Len(wall_backgrounds)
               /\ ret'.deleted.rate_limits
                     = Cardinality({k \in Keys : rate_limits[k] # NoRow})
               /\ IF ret'.backgroundScheduled
                  THEN \E r \in Runs : /\ rot[r].pc = "idle"
                                       /\ rot' = [rot EXCEPT ![r] = ScheduledRun]
                  ELSE rot' = rot]_vars

\* A reset with the right key has just removed a piece, the snapshot row
\* and the background of the rotation that is writing to cold storage, and
\* two rate-limit records, and could not schedule a rotation.
C25_ResetReportedCounts ==
    /\ ret.op = "adminReset"
    /\ ret.res = "ok"
    /\ ret.deleted.graffiti = 1
    /\ ret.deleted.wall_snapshots >= 1
    /\ ret.deleted.wall_backgrounds >= 1
    /\ ret.deleted.rate_limits = 2
    /\ ~ret.backgroundScheduled
    /\ graffiti = EmptyTable
    /\ wall_snapshots = {}
    /\ \E r \in Runs : rot[r].pc = "put"

(***************************************************************************)
(* Exceptions inside generateArt.                                          *)
(***************************************************************************)
\* C26: when the moderation, transform or synthesis call or a write of the
\* run of a piece throws, the run returns in that step and releases its slot:
\* the error does not leave generateArt.  If failPiece's own write works, the
\* piece is failed with an error message that is not null and at most 500
\* characters long, keeps no image, and one piece_updated with status failed
\* is broadcast; if failPiece's write throws too, that error is caught as
\* well and nothing is written or broadcast.
C26_ExceptionsBecomeFailedPieces ==
    [][(ret'.op = "generateArt" /\ ret'.exit = "exception") =>
          /\ job[ret'.id] \in {"scheduled", "moderation", "transform", "synthesis"}
          /\ job'[ret'.id] = "done"
          /\ pendingGenerations' = pendingGenerations - 1
          /\ \A id \in DOMAIN graffiti \ {ret'.id} : graffiti'[id] = graffiti[id]
          /\ IF ret'.told
             THEN /\ graffiti'[ret'.id].status = "failed"
                  /\ graffiti'[ret'.id].error_message # NULL
                  /\ StrLen(graffiti'[ret'.id].error_message) <= 500
                  /\ graffiti'[ret'.id].image_data = NULL
                  /\ sent' = <<PieceUpdated(ret'.id, "failed")>>
             ELSE /\ graffiti' = graffiti
                  /\ sent' = <<>>]_vars

\* A call of the second piece's run threw an Error with a message of 600
\* characters; the piece is failed with the first 500 of them.  The first
\* piece's run ended on a thrown value that is no Error.
C26_LongMessageCut ==
    /\ ret.op = "generateArt"
    /\ ret.exit = "exception"
    /\ ret.id = 2
    /\ graffiti[2].status = "failed"
    /\ StrLen(graffiti[2].error_message) = 500
    /\ graffiti[1].status = "failed"
    /\ graffiti[1].error_message = "Generation failed"

(***************************************************************************)
(* The canvas state and the live pieces change together.                   *)
(***************************************************************************)
\* C29: a step that changes the epoch or the background of the canvas state
\* leaves no live piece and a piece count of 0 and broadcasts exactly one
\* wall_rotated with the new background and epoch, so that no client, no
\* getHistory call and no restarted coordinator sees the new epoch or
\* background together with pieces of the previous epoch.
C29_StateAndPiecesTogether ==
    [][(state'.wallEpoch # state.wallEpoch
          \/ state'.backgroundImage # state.backgroundImage)
          => /\ graffiti' = EmptyTable
             /\ state'.totalPieces = 0
             /\ Len(Rotations(sent')) = 1]_vars


\* A client displays the cursor of a session that is no longer connected.
Ghost(id) == id \notin idsOf(cursorStates) /\ id \in shownIds(clientCursors)

\* C22: a disconnect leaves no stale ghost cursor: once a session that had
\* set a cursor is gone, every remaining client that displays its cursor is
\* eventually sent a cursor aggregate without it, whatever the cursors of the
\* remaining sessions are.
C22_NoGhostCursor == \A id \in ConnIds : Ghost(id) ~> ~Ghost(id)


\* timestamps is in non-decreasing order
Ascending(timestamps) ==
    \A i \in 1..Len(timestamps) - 1 : timestamps[i] <= timestamps[i + 1]

\* C32: right after a checkRateLimit call in which no statement threw, the
\* stored list of the key holds only timestamps of the current window
\* (t > now - 60 s), in non-decreasing order; when every stored timestamp had
\* expired, nothing stale is kept: the row holds the new timestamp alone.
C32_StoredListInWindow ==
    [][(IsCheck(ret') /\ ret'.threw = "nothing") =>
          LET row == rate_limits'[ret'.key]
              before == rate_limits[ret'.key]
          IN  /\ row.payload = "array"
              /\ \A i \in 1..Len(row.ts) : row.ts[i] > now - RATE_LIMIT_WINDOW_MS
              /\ Ascending(row.ts)
              /\ (\A i \in 1..Len(before.ts) : before.ts[i] <= now - RATE_LIMIT_WINDOW_MS)
                    => row = ArrayRow(<<now>>)]_vars

\* C32 witness: a check found a well-formed row whose timestamps had all
\* expired and left the new timestamp alone.
C32_ExpiredRowReplaced ==
    /\ IsCheck(ret) /\ ret.threw = "nothing" /\ ret.had = "array" /\ ret.res = "admit"
    /\ now >= RATE_LIMIT_WINDOW_MS
    /\ rate_limits[ret.key] = ArrayRow(<<now>>)


\* C37: on a key that no storage fault or corruption has touched, the checks
\* admitted during any 60 s (the window of the code: the admits less than
\* 60000 ms old at the time of a check) never number more than the limit of
\* the check that admits the latest of them; and a check on one key leaves
\* the record of every other key as it was.
C37_AdmitsBounded ==
    [][IsCheck(ret') =>
          /\ \A k \in Keys \ {ret'.key} : rate_limits'[k] = rate_limits[k]
          /\ (clean'[ret'.key] /\ ret'.res = "admit")
                => Len(InWindow(admitLog'[ret'.key], now)) <= ret'.limit]_vars

\* C37 witness: a check has just admitted the last call its limit allows in
\* the window, while another key holds a record of its own.
C37_LimitReached ==
    /\ IsCheck(ret) /\ ret.res = "admit" /\ clean[ret.key]
    /\ ret.limit = MaxLimit
    /\ Len(InWindow(admitLog[ret.key], now)) = ret.limit
    /\ \E k \in Keys \ {ret.key} : rate_limits[k].payload = "array"


\* C38: the retry-after hint is sound.  A check denied with "Try again in
\* R s" is followed, R seconds or more later and with no other check in
\* between, by an admitted check on the same key; and a denied check stores
\* the timestamps of the window it found and nothing else, so a denied attempt
\* never moves the time at which the key is free again.
C38_RetryHintSound ==
    [][(IsCheck(ret') /\ now' = now /\ ret'.threw = "nothing") =>
          /\ (/\ IsCheck(ret) /\ ret.res = "deny" /\ ret.threw = "nothing"
              /\ ret'.key = ret.key /\ ret'.limit = ret.limit
              /\ now >= ret.at + 1000 * ret.retryIn)
                => ret'.res = "admit"
          /\ ret'.res = "deny"
                => /\ rate_limits'[ret'.key].ts
                        = SelectSeq(rate_limits[ret'.key].ts,
                                    LAMBDA t : t > now - RATE_LIMIT_WINDOW_MS)
                   /\ Len(rate_limits'[ret'.key].ts) >= ret'.limit]_vars

\* C38 witness: a caller denied at 59999 ms with a hint of 1 s, the oldest
\* admit being 1 ms from expiry, waited as told and has just been admitted.
C38_AdmittedAfterWait ==
    /\ IsCheck(ret) /\ ret.res = "admit"
    /\ ret.at = now
    /\ now = RATE_LIMIT_WINDOW_MS + 999
    /\ rate_limits[ret.key].ts = <<59999, 59999, now>>


\* C31: after every start of the coordinator exactly one repeating rotateWall
\* schedule is registered, and the start has scheduled a one-off rotation
\* exactly when table wall_backgrounds held no row.
C31_OneRepeatingSchedule ==
    [][ret'.op = "onStart" =>
          /\ intervalSchedules' = 1
          /\ ret'.scheduledRotation <=> wall_backgrounds = <<>>]_vars

\* C31 witness: the coordinator was restarted with a background stored, and
\* scheduled no rotation; the hourly schedule is still the only one.
C31_RestartedWithBackground ==
    /\ ret.op = "onStart" /\ ~ret.scheduledRotation
    /\ wall_backgrounds # <<>>
    /\ intervalSchedules = 1


\* C33: an admitted connect sends one wall_history message, to the connecting
\* session and to no other: it lists the pieces created last, at most 50, the
\* earlier created first (piece ids are given in the order of creation), with
\* the current totalPieces, background and epoch.
C33_SnapshotInCreationOrder ==
    [][(ret'.op = "onConnect" /\ ret'.res = "admitted") =>
          LET m == ret'.message
              listed == {m.pieces[i] : i \in 1..Len(m.pieces)}
          IN  /\ sent' = <<>>
              /\ m.type = "wall_history"
              /\ Len(m.pieces) = Min(Cardinality(DOMAIN graffiti), 50)
              /\ \A i, j \in 1..Len(m.pieces) : i < j => m.pieces[i] < m.pieces[j]
              /\ \A id \in DOMAIN graffiti \ listed : \A other \in listed : id < other
              /\ m.total = state.totalPieces
              /\ m.backgroundImage = state.backgroundImage
              /\ m.wallEpoch = state.wallEpoch]_vars


\* C34: a message that starts with "C:" is not passed on to the structured
\* handler and changes the cursor of the session that sent it and nothing
\* else: cursorX and cursorY are numbers of [0, 1], cursorName has at most 50
\* characters, and the addresses of all sessions, the state of every other
\* session, the tables and the canvas state are as before; nothing is sent.
\* Any other message is passed on.
C34_CursorMessageFrame ==
    [][ret'.op = "onMessage" =>
          /\ ret'.forwarded <=> ret'.message.prefix # "C:"
          /\ ~ret'.forwarded =>
                LET mine == cursorStates'[ret'.session]
                IN  /\ mine.cursorX.type = "number" /\ mine.cursorX.v \in 0..One
                    /\ mine.cursorY.type = "number" /\ mine.cursorY.v \in 0..One
                    /\ StrLen(mine.cursorName) \in 1..50
                    /\ \A j \in 1..Len(cursorStates) :
                          j # ret'.session => cursorStates'[j] = cursorStates[j]
                    /\ Len(cursorStates') = Len(cursorStates)
                    /\ sent' = <<>>
                    /\ UNCHANGED <<connections, clientCursors, limiterVars, wallVars,
                                   rotVars, intervalSchedules, calls, now>>]_vars

\* C34 witness: the second session sent a cursor left of the wall, below it
\* and with a name of 60 characters, on a wall that holds a piece; its cursor
\* is on the wall's edge and its name cut, and the first session has none.
C34_CursorClamped ==
    /\ ret.op = "onMessage" /\ ~ret.forwarded /\ ret.session = 2
    /\ ret.message = CursorMessage("-1", "1.5", "LongName (60 characters)")
    /\ cursorStates[2].cursorX = Num(0) /\ cursorStates[2].cursorY = Num(One)
    /\ cursorStates[2].cursorName = "LongName (the first 50 characters)"
    /\ cursorStates[1] = NoCursor
    /\ connections[2].ip = "203.0.113.7"
    /\ graffiti # EmptyTable


\* C35: every rotateWall run that clears the canvas raises the epoch by
\* exactly one over the value it had just before, so that between resets the
\* epoch never repeats or decreases, also when runs overlap.
C35_EpochRaisedByOne ==
    [][(ret'.op = "rotateWall" /\ ret'.res = "rotated")
          => state'.wallEpoch = state.wallEpoch + 1]_vars


\* C39: in every state pendingGenerations is the number of generation jobs
\* that contribute has admitted and whose generateArt run has not returned,
\* and it lies in 0..MAX_CONCURRENT_GENERATIONS, also after a restart of the
\* coordinator.
C39_CounterMatchesJobs ==
    /\ pendingGenerations = Cardinality(Unfinished(job))
    /\ pendingGenerations \in 0..MAX_CONCURRENT_GENERATIONS


\* C40: after every step of every handler totalPieces of the canvas state is
\* the number of rows of table graffiti: the rows change only by one row
\* added by contribute, or by all rows deleted by rotateWall or adminReset;
\* generateArt and failPiece add and delete none, and onStart counts them.
C40_CountMatchesRows ==
    [][/\ state'.totalPieces = Cardinality(DOMAIN graffiti')
       /\ DOMAIN graffiti' # DOMAIN graffiti =>
             \/ /\ ret'.op = "contribute"
                /\ Cardinality(DOMAIN graffiti') = Cardinality(DOMAIN graffiti) + 1
                /\ state'.totalPieces = state.totalPieces + 1
             \/ /\ ret'.op \in {"rotateWall", "adminReset"}
                /\ graffiti' = EmptyTable]_vars

\* C40 witness: the coordinator was restarted while the wall held a piece,
\* and counts one.
C40_RestartedWithPiece ==
    /\ ret.op = "onStart"
    /\ Cardinality(DOMAIN graffiti) = 1
    /\ state.totalPieces = 1

(***************************************************************************)
(* The page after its socket is established again.                         *)
(***************************************************************************)
\* C36: whenever the page's connection is established, for the first time
\* or again, and wall_history arrives, the page's piece list, count,
\* background and epoch become those of the snapshot, so that what was
\* added, updated or cleared while the page was disconnected shows after
\* the reconnect.
C36_SnapshotReplacesView ==
    [][(~client.open /\ client'.open /\ ret'.op = "onConnect" /\ ret'.res = "admitted")
          => /\ client'.pieces = piecesOf(graffiti, ret'.message.pieces)
             /\ client'.totalPieces = ret'.message.total
             /\ client'.backgroundImage = ret'.message.backgroundImage
             /\ client'.wallEpoch = ret'.message.wallEpoch]_vars

====
